---- MODULE Spec2Model ----
(***************************************************************************)
(* Model of the workload agent's supervisor (internal/daemon/daemon.go),   *)
(* the Oracle workload service (internal/daemon/oracle/oracle.go) and the  *)
(* process-discovery fan-out                                               *)
(* (internal/servicecommunication/discovery/discovery.go).                 *)
(*                                                                         *)
(* Eleven specifications share the definitions below:                      *)
(*   Spec         the daemon as daemon.go wires it: Execute loads the      *)
(*                configuration, starts the services and waits for a       *)
(*                signal.  The services are built without a CommonCh and   *)
(*                CommonDiscovery is not started.                          *)
(*   FanSpec      CommonDiscovery started with NumSubscribers channels,    *)
(*                each read by a reader that takes a message at any time   *)
(*                or never.                                                *)
(*   SvcSpec      CommonDiscovery started with one channel, which is the   *)
(*                CommonCh of an Oracle service whose Start was called.    *)
(*   AutoFairSpec SvcSpec for a service with enabled unset, on Linux with  *)
(*                metrics enabled, under fair scheduling of the            *)
(*                goroutines.                                              *)
(*   EngineSpec   the Oracle metric collector running its query table on   *)
(*                each tick, against a database with a role.               *)
(*   WlmSpec      the workload manager's collect-and-ship loop.            *)
(*   InitDBSpec   one call of InitDB of the MySQL and Postgres collectors. *)
(*   OnceSpec     one call of CollectMetricsOnce of the MySQL and Postgres *)
(*                collectors, against the doubles of their tests.          *)
(*   RestartSpec  SvcSpec with a Start that may be called again after it   *)
(*                returned.                                                *)
(*   MutexSpec    the statements of Start, checkServiceCommunication and   *)
(*                runDiscovery around the processes mutex, and the         *)
(*                goroutines that calls of Start leave behind.             *)
(*   OriginSpec   a service with enabled unset whose CommonCh also carries *)
(*                messages of origins other than discovery.                *)
(***************************************************************************)
EXTENDS Naturals, Sequences, FiniteSets

(***************************************************************************)
(* Bounds of the model.                                                    *)
(***************************************************************************)
\* Number of channels handed to CommonDiscovery.
NumSubscribers == 2
\* Largest channel capacity a subscriber's channel is made with.
MaxCap == 1
\* Metric ticks are counted up to this number.
MaxTicks == 1
\* The counters of the database are counted up to this number.
MaxCount == 2
\* Failing queries are counted up to this number in a tick.
MaxQueryErrors == 1
\* The override loop of the workload manager runs up to this number of ticks.
MaxWlmTicks == 2
\* Rows the replication zones query returns at most.
MaxReplicas == 3
\* Calls of Start on one service that are followed.
MaxStarts == 2

Subscribers == 1..NumSubscribers

(***************************************************************************)
(* Strings are sequences of characters, so that a prefix test is computed. *)
(***************************************************************************)
oraProcessPrefixes ==
    { <<"o","r","a","_","p","m","o","n","_">>,
      <<"d","b","_","p","m","o","n","_">> }

HasPrefix(s, p) == Len(p) <= Len(s) /\ SubSeq(s, 1, Len(p)) = p

HasAnyPrefix(s, prefixes) == \E p \in prefixes : HasPrefix(s, p)

(***************************************************************************)
(* Process handles: name is what Name() returns, nameErr whether Name()    *)
(* returns an error (the lookup may race with the exit of the process).    *)
(***************************************************************************)
ProcOra     == [name |-> <<"o","r","a","_","p","m","o","n","_","X">>, nameErr |-> FALSE]
ProcOraGone == [name |-> <<"o","r","a","_","p","m","o","n","_","X">>, nameErr |-> TRUE]
ProcMysqld  == [name |-> <<"m","y","s","q","l","d">>, nameErr |-> FALSE]

\* The process lists a listing may return.
ProcLists ==
    { <<>>,
      <<ProcMysqld>>,
      <<ProcOraGone, ProcMysqld>>,
      <<ProcMysqld, ProcOra>> }

\* What listAllProcesses may return: an error, or a list.
Listings == { [err |-> TRUE, procs |-> <<>>] }
            \cup { [err |-> FALSE, procs |-> l] : l \in ProcLists }

NoListing == [err |-> FALSE, procs |-> <<>>]

\* A nil slice is <<>>, a slice l is <<l>>.
NilSlice == <<>>
Slice(l) == <<l>>

\* A nil channel.
NilChan == 0

VARIABLES
    \* daemon.go
    daemonPc,          \* position of Execute / startdaemonHandler / waitForShutdown
    loadErr,           \* configuration.Load returned an error
    routinesStarted,   \* services whose StartRoutine was called
    shutdownch,        \* the signal channel (capacity 1)
    executeResult,     \* what Execute returned: "none" (running), "nil", "error"
    lastSignal,        \* the last signal the OS delivered to the process, or "none"
    ctxCancelled,      \* the root context is cancelled
    \* configuration (immutable once loaded)
    enabled,           \* OracleConfiguration.Enabled: "true", "false", "unset"
    discoveryEnabled,  \* OracleDiscovery.Enabled
    metricsEnabled,    \* OracleMetrics.Enabled
    goos,              \* runtime.GOOS
    \* oracle.Service
    startPc,           \* Start
    inboundPc,         \* the goroutine of Start running checkServiceCommunication
    isProcessPresent,
    processes,
    CommonCh,          \* index of the service's channel, NilChan if nil
    discPc,            \* runDiscovery
    metricPc,          \* runMetricCollection
    metricTicks,       \* ticks of the metric loop that sent metrics
    \* discovery.Service.CommonDiscovery
    fanPc,
    fanIdx,            \* position of the range over chs
    fullChs,
    listed,            \* what listAllProcesses returned in this round
    chans,             \* chs: the contents of each channel
    chanCap,           \* capacity of each channel
    \* history
    workloadDelivered, \* a message holding an Oracle process was put on CommonCh
    handledOrigins,    \* origins of the messages checkServiceCommunication handled
    errorLog,          \* the messages logged at level Error
    \* the database the Oracle metric collector queries
    numberOfWaits,     \* V$IOSTAT_FUNCTION.number_of_waits
    waitTime,          \* V$IOSTAT_FUNCTION.wait_time
    uptime,            \* seconds since v$instance.startup_time
    \* the query engine of the Oracle metric collector
    enginePc,          \* "idle" between ticks, "queries" within one
    qIdx,              \* position in the query table
    dbRole,            \* role of the instance found at the top of the tick
    executed,          \* names of the queries run in this tick
    tickOutput,        \* metric keys sent in this tick
    queryErrors,       \* queries of this tick that failed
    emitted,           \* last value sent for a metric key
    \* workloadmanager.Service.CollectAndSendMetricsToDataWarehouse
    wlmPc,             \* position of the loop
    wlmTick,           \* number of the tick
    wm,                \* the batches collected in this tick
    spawnIdx,          \* position of the range over params.wm
    shippers,          \* the shipper goroutines that are running (by batch)
    results,           \* what SendDataInsight returned in the goroutines that are done
    wgCount,           \* the counter of the WaitGroup
    insights,          \* history: the batches given to the RPC, with their requests
    failedTicks,       \* history: ticks in which an RPC returned an error
    deliveredTicks,    \* history: ticks in which an RPC succeeded
    overrideFile,      \* the file at MetricOverridePath: whether it exists, and its lines
    \* InitDB of a metric collector
    initPc,            \* position of InitDB
    dbConfig,          \* ConnectionParameters: Password and Secret{ProjectId, SecretName}
    gceSecret,         \* what GetSecret returns: the secret and whether it fails
    connectErr,        \* connect returns an error
    pingErr,           \* Ping returns an error
    secretFetched,     \* GetSecret was called
    dbPassword,        \* the password of the data source
    initResult,        \* what InitDB returned: "none" (running), "ok" or the error
    \* CollectMetricsOnce of the MySQL and Postgres metric collectors
    oncePc,            \* position of CollectMetricsOnce
    onceKind,          \* the collector: "MYSQL" or "POSTGRES" ("none" before the call)
    onceIn,            \* what the database and the resolver returned to the last step
    onceWlm,           \* what WriteInsightAndGetResponse returned ("none" before the call)
    onceExecuted,      \* the queries that were executed
    onceErrs,          \* the steps that recorded an error
    onceMetrics,       \* the metrics collected so far
    onceZones,         \* what replicationZones returned
    onceRpcs,          \* calls of WriteInsightAndGetResponse
    onceResult,        \* what CollectMetricsOnce returned ("none" while running)
    \* processesMutex of oracle.Service and the goroutines that use it
    processesMutex,    \* the goroutine that holds the mutex, or "free"
    mxPc,              \* the position of each goroutine, one statement at a time
    mxMsg,             \* the processes of the message checkServiceCommunication handles
    mxLocal,           \* the variable processes of runDiscovery
    mxDiscovered,      \* history: the processes the last call of Discover was given
    mxTasks            \* the goroutines running "for { s.checkServiceCommunication(ctx) }"

daemonVars  == <<daemonPc, loadErr, routinesStarted, shutdownch, executeResult,
                 lastSignal>>
configVars  == <<enabled, discoveryEnabled, metricsEnabled, goos>>
serviceVars == <<startPc, inboundPc, isProcessPresent, processes, discPc, metricPc,
                 metricTicks>>
fanVars     == <<fanPc, fanIdx, fullChs, listed>>
chanVars    == <<chans, chanCap, CommonCh, workloadDelivered, handledOrigins>>
logVars     == <<errorLog>>
dbVars      == <<numberOfWaits, waitTime, uptime>>
engineVars  == <<enginePc, qIdx, dbRole, executed, tickOutput, queryErrors, emitted>>
wlmVars     == <<wlmPc, wlmTick, wm, spawnIdx, shippers, results, wgCount, insights,
                 failedTicks, deliveredTicks, overrideFile>>
initVars    == <<initPc, dbConfig, gceSecret, connectErr, pingErr, secretFetched,
                 dbPassword, initResult>>
\* The state of the collection pipeline.
onceVars    == <<oncePc, onceKind, onceIn, onceWlm, onceExecuted, onceErrs,
                 onceMetrics, onceZones, onceRpcs, onceResult>>
mutexVars   == <<processesMutex, mxPc, mxMsg, mxLocal, mxDiscovered, mxTasks>>
collectVars == <<dbVars, engineVars, wlmVars, initVars, onceVars, mutexVars>>
vars == <<daemonVars, ctxCancelled, configVars, serviceVars, fanVars, chanVars, logVars,
          collectVars>>

\* d.services of startdaemonHandler.
Services == <<"oracle", "mysql">>

\* The database at the startup of the instance.
DbInit ==
    /\ numberOfWaits = 0
    /\ waitTime = 0
    /\ uptime = 0

\* No tick of the query engine has run.
EngineIdle ==
    /\ enginePc = "idle"
    /\ qIdx = 1
    /\ dbRole = "PRIMARY"
    /\ executed = {}
    /\ tickOutput = {}
    /\ queryErrors = 0
    /\ emitted = <<>>

\* CollectAndSendMetricsToDataWarehouse has not been called.
WlmIdle ==
    /\ wlmPc = "idle"
    /\ wlmTick = 0
    /\ wm = <<>>
    /\ spawnIdx = 1
    /\ shippers = {}
    /\ results = <<>>
    /\ wgCount = 0
    /\ insights = {}
    /\ failedTicks = {}
    /\ deliveredTicks = {}
    /\ overrideFile = [exists |-> FALSE, lines |-> <<>>]

\* InitDB has not been called.
InitDBIdle ==
    /\ initPc = "idle"
    /\ dbConfig = [Password |-> "", Secret |-> [ProjectId |-> "", SecretName |-> ""]]
    /\ gceSecret = [secret |-> "", err |-> FALSE]
    /\ connectErr = FALSE
    /\ pingErr = FALSE
    /\ secretFetched = FALSE
    /\ dbPassword = ""
    /\ initResult = "none"

\* CollectMetricsOnce has not been called.
OnceIdle ==
    /\ oncePc = "idle"
    /\ onceKind = "none"
    /\ onceIn = "none"
    /\ onceWlm = "none"
    /\ onceExecuted = {}
    /\ onceErrs = {}
    /\ onceMetrics = <<>>
    /\ onceZones = <<>>
    /\ onceRpcs = 0
    /\ onceResult = "none"

\* The goroutines of the service, statement by statement, are not started.
MutexIdle ==
    /\ processesMutex = "free"
    /\ mxPc = [inbound |-> "none", start |-> "none", discovery |-> "none"]
    /\ mxMsg = <<>>
    /\ mxLocal = NilSlice
    /\ mxDiscovered = NilSlice
    /\ mxTasks = 0

CollectInit ==
    /\ DbInit
    /\ EngineIdle
    /\ WlmIdle
    /\ InitDBIdle
    /\ OnceIdle
    /\ MutexIdle

ConfigInit ==
    /\ enabled \in {"true", "false", "unset"}
    /\ discoveryEnabled \in BOOLEAN
    /\ metricsEnabled \in BOOLEAN
    /\ goos \in {"linux", "windows"}

ServiceInit ==
    /\ inboundPc = "none"
    /\ isProcessPresent = FALSE
    /\ processes = NilSlice
    /\ discPc = "none"
    /\ metricPc = "none"
    /\ metricTicks = 0

\* The daemon before Execute has run.  The services are built as
\* &oracle.Service{Config, CloudProps}: CommonCh is nil, and nothing starts
\* CommonDiscovery.
Init ==
    /\ daemonPc = "load"
    /\ loadErr = FALSE
    /\ routinesStarted = {}
    /\ shutdownch = <<>>
    /\ executeResult = "none"
    /\ lastSignal = "none"
    /\ ctxCancelled = FALSE
    /\ ConfigInit
    /\ startPc = "idle"
    /\ ServiceInit
    /\ fanPc = "notStarted"
    /\ fanIdx = 1
    /\ fullChs = 0
    /\ listed = NoListing
    /\ chans = <<>>
    /\ chanCap = <<>>
    /\ CommonCh = NilChan
    /\ workloadDelivered = FALSE
    /\ handledOrigins = {}
    /\ errorLog = {}
    /\ CollectInit

\* What the initial states of the specifications of CommonDiscovery share:
\* the context is live and CommonDiscovery is about to list the processes.
CommInit ==
    /\ daemonPc = "waitSignal"
    /\ loadErr = FALSE
    /\ routinesStarted = {}
    /\ shutdownch = <<>>
    /\ executeResult = "none"
    /\ lastSignal = "none"
    /\ ctxCancelled = FALSE
    /\ ServiceInit
    /\ fanPc = "list"
    /\ fanIdx = 1
    /\ fullChs = 0
    /\ listed = NoListing
    /\ workloadDelivered = FALSE
    /\ handledOrigins = {}
    /\ errorLog = {}
    /\ CollectInit

\* CommonDiscovery called with NumSubscribers empty channels.  No service is
\* started: the configuration of the service is never read.
FanInit ==
    /\ CommInit
    /\ enabled = "false"
    /\ discoveryEnabled = FALSE
    /\ metricsEnabled = FALSE
    /\ goos = "linux"
    /\ startPc = "idle"
    /\ chans = [i \in Subscribers |-> <<>>]
    /\ chanCap \in [Subscribers -> 1..MaxCap]
    /\ CommonCh = NilChan

\* CommonDiscovery called with one empty channel, Start called on a service
\* whose CommonCh is that channel.
SvcInit ==
    /\ CommInit
    /\ ConfigInit
    /\ startPc = "begin"
    /\ chans = [i \in {1} |-> <<>>]
    /\ chanCap \in [{1} -> 1..MaxCap]
    /\ CommonCh = 1

AutoInit ==
    /\ SvcInit
    /\ enabled = "unset"
    /\ goos = "linux"
    /\ metricsEnabled = TRUE

\* The process is running: when Execute has returned, or a signal has
\* terminated the process, the goroutines are gone.
ProcessAlive == daemonPc \notin {"exited", "killed"}

(***************************************************************************)
(* oracle.Service.Start                                                    *)
(***************************************************************************)
\* StartBranch with the branch of a disabled service left out.
StartBranchNoDisabled(en) ==
    IF en = "unset" THEN "waiting"
    ELSE "gate"

\* Where Start goes after reading the enabled field.
StartBranch(en) ==
    IF en = "unset" THEN "waiting"
    ELSE IF en = "false" THEN "returned"
    ELSE "gate"

\* Start spawns the goroutine that runs checkServiceCommunication for ever and
\* reads the enabled field.
StartEntry ==
    /\ ProcessAlive
    /\ startPc = "begin"
    /\ inboundPc' = "check"
    /\ startPc' = StartBranch(enabled)
    /\ UNCHANGED <<isProcessPresent, processes, discPc, metricPc, metricTicks>>
    /\ UNCHANGED <<daemonVars, ctxCancelled, configVars, collectVars, logVars, fanVars, chanVars>>

\* IsProcessPresentRead when the write of the goroutine never becomes visible.
IsProcessPresentReadStale == {FALSE}

\* Start reads isProcessPresent without holding processesMutex while the
\* goroutine writes it: the read returns the value written or the value
\* before it.
IsProcessPresentRead == IF isProcessPresent THEN {TRUE, FALSE} ELSE {FALSE}

\* One iteration of "for !s.isProcessPresent { time.Sleep(5s) }".
StartPoll ==
    /\ ProcessAlive
    /\ startPc = "waiting"
    /\ \E seen \in IsProcessPresentRead :
          startPc' = IF seen THEN "gate" ELSE "waiting"
    /\ UNCHANGED <<inboundPc, isProcessPresent, processes, discPc, metricPc, metricTicks>>
    /\ UNCHANGED <<daemonVars, ctxCancelled, configVars, collectVars, logVars, fanVars, chanVars>>

\* The messages Start and its routines log at level Error.
UnsupportedPlatformMsg == "Oracle service is only supported on Linux"
DiscoverFailedMsg == "Failed to discover databases"
CollectorInitFailedMsg == "Failed to initialize metric collector"

\* PlatformSupported without the test of runtime.GOOS.
PlatformSupportedAny(os) == TRUE

\* The platform gate.
PlatformSupported(os) == os = "linux"

\* MetricRoutineStarted for a Start whose metric block is inside its
\* discovery block.
MetricRoutineStartedNested(disc, met) == disc /\ met

\* The two if statements of Start, one after the other: each routine is
\* started when its own Enabled field is true.
DiscoveryRoutineStarted(disc, met) == disc
MetricRoutineStarted(disc, met) == met

\* The platform gate, then the two routines are started as configured and
\* Start blocks on ctx.Done().
StartActivate ==
    /\ ProcessAlive
    /\ startPc = "gate"
    /\ IF ~PlatformSupported(goos)
       THEN /\ errorLog' = errorLog \cup {UnsupportedPlatformMsg}
            /\ startPc' = "returned"
            /\ UNCHANGED <<discPc, metricPc>>
       ELSE /\ discPc' = IF DiscoveryRoutineStarted(discoveryEnabled, metricsEnabled)
                         THEN "top" ELSE "none"
            /\ metricPc' = IF MetricRoutineStarted(discoveryEnabled, metricsEnabled)
                           THEN "init" ELSE "none"
            /\ startPc' = "blocked"
            /\ UNCHANGED errorLog
    /\ UNCHANGED <<inboundPc, isProcessPresent, processes, metricTicks>>
    /\ UNCHANGED <<daemonVars, ctxCancelled, configVars, collectVars, fanVars, chanVars>>

\* StartSelectReady for a select with a case that is always ready.
StartSelectReadyAlways(cancelled) == TRUE

\* The select of Start has one case, ctx.Done().
StartSelectReady(cancelled) == cancelled

\* select { case <-ctx.Done(): return }
StartDone ==
    /\ ProcessAlive
    /\ startPc = "blocked"
    /\ StartSelectReady(ctxCancelled)
    /\ startPc' = "returned"
    /\ UNCHANGED <<inboundPc, isProcessPresent, processes, discPc, metricPc, metricTicks>>
    /\ UNCHANGED <<daemonVars, ctxCancelled, configVars, collectVars, logVars, fanVars, chanVars>>

\* The recoverable routine of the daemon calls Start again.  When it does so
\* is decided outside this repository: any time after Start has ended.  The
\* service is the one Start was called on before, with its fields as they
\* are.
StartRestart ==
    /\ ProcessAlive
    /\ startPc = "returned"
    /\ startPc' = "begin"
    /\ UNCHANGED <<inboundPc, isProcessPresent, processes, discPc, metricPc, metricTicks>>
    /\ UNCHANGED <<daemonVars, ctxCancelled, configVars, collectVars, logVars, fanVars, chanVars>>

(***************************************************************************)
(* oracle.Service.checkServiceCommunication, called in "for { ... }"       *)
(***************************************************************************)
\* ProcessMatches with the error of Name() not checked.
ProcessMatchesErrIgnored(p) == HasAnyPrefix(p.name, oraProcessPrefixes)

\* name, err := p.Name(); err == nil && HasAnyPrefix(name, oraProcessPrefixes)
ProcessMatches(p) == ~p.nameErr /\ HasAnyPrefix(p.name, oraProcessPrefixes)

\* The range over msg.DiscoveryResult.Processes from index i, with its break.
RECURSIVE ScanProcesses(_, _)
ScanProcesses(procs, i) ==
    IF i > Len(procs) THEN FALSE
    ELSE IF ProcessMatches(procs[i]) THEN TRUE
    ELSE ScanProcesses(procs, i + 1)

\* if ctx.Err() != nil { return }: the enclosing for calls the function again.
InboundCheck ==
    /\ ProcessAlive
    /\ inboundPc = "check"
    /\ inboundPc' = IF ctxCancelled THEN "check" ELSE "select"
    /\ UNCHANGED <<startPc, isProcessPresent, processes, discPc, metricPc, metricTicks>>
    /\ UNCHANGED <<daemonVars, ctxCancelled, configVars, collectVars, logVars, fanVars, chanVars>>

\* The cases of the select that are ready; a receive from a nil channel never is.
InboundReady ==
    (IF ctxCancelled THEN {"done"} ELSE {})
    \cup (IF CommonCh # NilChan /\ chans[CommonCh] # <<>> THEN {"msg"} ELSE {})

\* HandleMessage for a service whose isProcessPresent follows the last message.
HandleMessageNoLatch(msg) ==
    IF msg.origin = "Discovery"
    THEN /\ processes' = Slice(msg.procs)
         /\ isProcessPresent' = ScanProcesses(msg.procs, 1)
    ELSE UNCHANGED <<processes, isProcessPresent>>

\* HandleMessage for a switch without its cases on msg.Origin.
HandleMessageAnyOrigin(msg) ==
    /\ processes' = Slice(msg.procs)
    /\ isProcessPresent' = (isProcessPresent \/ ScanProcesses(msg.procs, 1))

\* The state of the service after the message msg is handled.
HandleMessage(msg) ==
    IF msg.origin = "Discovery"
    THEN /\ processes' = Slice(msg.procs)
         /\ isProcessPresent' = (isProcessPresent \/ ScanProcesses(msg.procs, 1))
    ELSE UNCHANGED <<processes, isProcessPresent>>

\* select { case <-ctx.Done(): return; case msg := <-s.CommonCh: ... }
InboundSelect ==
    /\ ProcessAlive
    /\ inboundPc = "select"
    /\ \E c \in InboundReady :
          IF c = "done"
          THEN UNCHANGED <<processes, isProcessPresent, chans, handledOrigins>>
          ELSE /\ HandleMessage(Head(chans[CommonCh]))
               /\ handledOrigins' = handledOrigins \cup {Head(chans[CommonCh]).origin}
               /\ chans' = [chans EXCEPT ![CommonCh] = Tail(@)]
    /\ inboundPc' = "check"
    /\ UNCHANGED <<startPc, discPc, metricPc, metricTicks>>
    /\ UNCHANGED <<daemonVars, ctxCancelled, configVars, collectVars, logVars, fanVars>>
    /\ UNCHANGED <<chanCap, CommonCh, workloadDelivered>>

(***************************************************************************)
(* oracle.runDiscovery                                                     *)
(***************************************************************************)
\* The top of the loop: the snapshot is read under the mutex.
DiscTop ==
    /\ ProcessAlive
    /\ discPc = "top"
    /\ discPc' = IF processes = NilSlice THEN "wait" ELSE "discover"
    /\ UNCHANGED <<startPc, inboundPc, isProcessPresent, processes, metricPc, metricTicks>>
    /\ UNCHANGED <<daemonVars, ctxCancelled, configVars, collectVars, logVars, fanVars, chanVars>>

\* One iteration of "for processes == nil": sleep, read again, then the
\* select on ctx.Done() with its default.
DiscWait ==
    /\ ProcessAlive
    /\ discPc = "wait"
    /\ discPc' = IF ctxCancelled THEN "returned"
                 ELSE IF processes = NilSlice THEN "wait"
                 ELSE "discover"
    /\ UNCHANGED <<startPc, inboundPc, isProcessPresent, processes, metricPc, metricTicks>>
    /\ UNCHANGED <<daemonVars, ctxCancelled, configVars, collectVars, logVars, fanVars, chanVars>>

\* ds.Discover: on an error runDiscovery returns.
DiscDiscover ==
    /\ ProcessAlive
    /\ discPc = "discover"
    /\ \E ok \in BOOLEAN :
          IF ok
          THEN discPc' = "select" /\ UNCHANGED errorLog
          ELSE discPc' = "failed" /\ errorLog' = errorLog \cup {DiscoverFailedMsg}
    /\ UNCHANGED <<startPc, inboundPc, isProcessPresent, processes, metricPc, metricTicks>>
    /\ UNCHANGED <<daemonVars, ctxCancelled, configVars, collectVars, fanVars, chanVars>>

\* select { case <-ctx.Done(): return; case <-ticker.C: continue }
DiscSelect ==
    /\ ProcessAlive
    /\ discPc = "select"
    /\ \E c \in {"tick"} \cup (IF ctxCancelled THEN {"done"} ELSE {}) :
          discPc' = IF c = "done" THEN "returned" ELSE "top"
    /\ UNCHANGED <<startPc, inboundPc, isProcessPresent, processes, metricPc, metricTicks>>
    /\ UNCHANGED <<daemonVars, ctxCancelled, configVars, collectVars, logVars, fanVars, chanVars>>

(***************************************************************************)
(* oracle.runMetricCollection                                              *)
(***************************************************************************)
\* oraclemetrics.New: on an error runMetricCollection returns.
MetricInit ==
    /\ ProcessAlive
    /\ metricPc = "init"
    /\ \E ok \in BOOLEAN :
          IF ok
          THEN metricPc' = "select" /\ UNCHANGED errorLog
          ELSE metricPc' = "failed" /\ errorLog' = errorLog \cup {CollectorInitFailedMsg}
    /\ UNCHANGED <<startPc, inboundPc, isProcessPresent, processes, discPc, metricTicks>>
    /\ UNCHANGED <<daemonVars, ctxCancelled, configVars, collectVars, fanVars, chanVars>>

\* select { case <-ctx.Done(): return; case <-ticker.C: send the metrics }
MetricSelect ==
    /\ ProcessAlive
    /\ metricPc = "select"
    /\ \E c \in {"tick"} \cup (IF ctxCancelled THEN {"done"} ELSE {}) :
          IF c = "done"
          THEN /\ metricPc' = "returned"
               /\ UNCHANGED metricTicks
          ELSE /\ metricPc' = "select"
               /\ metricTicks' = IF metricTicks < MaxTicks THEN metricTicks + 1
                                 ELSE metricTicks
    /\ UNCHANGED <<startPc, inboundPc, isProcessPresent, processes, discPc>>
    /\ UNCHANGED <<daemonVars, ctxCancelled, configVars, collectVars, logVars, fanVars, chanVars>>


(***************************************************************************)
(* discovery.Service.CommonDiscovery                                       *)
(***************************************************************************)
\* DiscoveryMessage for a message built without its Origin field.
DiscoveryMessageNoOrigin(procs) == [origin |-> "Unknown", procs |-> procs]

\* The message of a round.
DiscoveryMessage(procs) == [origin |-> "Discovery", procs |-> procs]

\* commonDiscoveryLoop without its check of the number of processes.
commonDiscoveryLoopNoCount(l) ==
    IF l.err THEN [err |-> TRUE, procs |-> <<>>]
    ELSE [err |-> FALSE, procs |-> l.procs]

\* commonDiscoveryLoop applied to what listAllProcesses returned.
commonDiscoveryLoop(l) ==
    IF l.err THEN [err |-> TRUE, procs |-> <<>>]
    ELSE IF Len(l.procs) < 1 THEN [err |-> TRUE, procs |-> <<>>]
    ELSE [err |-> FALSE, procs |-> l.procs]

\* d.ProcessLister.listAllProcesses()
FanList ==
    /\ ProcessAlive
    /\ fanPc = "list"
    /\ \E l \in Listings : listed' = l
    /\ fanPc' = "listed"
    /\ UNCHANGED <<fanIdx, fullChs>>
    /\ UNCHANGED <<daemonVars, ctxCancelled, configVars, collectVars, logVars, serviceVars, chanVars>>

\* The result of commonDiscoveryLoop is checked: on an error CommonDiscovery
\* logs it and returns, else the round of sends begins with fullChs := 0.
FanCheck ==
    /\ ProcessAlive
    /\ fanPc = "listed"
    /\ LET r == commonDiscoveryLoop(listed) IN
          IF r.err
          THEN /\ fanPc' = "failed"
               /\ UNCHANGED <<fanIdx, fullChs, listed>>
          ELSE /\ fanPc' = "send"
               /\ fanIdx' = 1
               /\ fullChs' = 0
               /\ listed' = [err |-> FALSE, procs |-> r.procs]
    /\ UNCHANGED <<daemonVars, ctxCancelled, configVars, collectVars, logVars, serviceVars, chanVars>>

\* TrySend on a queue that is not bounded.
TrySendUnbounded(q, c, msg) == [q |-> Append(q, msg), full |-> 0]

\* select { case ch <- msg: default: fullChs++ } on a channel holding q with
\* capacity c.
TrySend(q, c, msg) ==
    IF Len(q) < c THEN [q |-> Append(q, msg), full |-> 0]
    ELSE [q |-> q, full |-> 1]

\* A process list holds a process of the Oracle workload whose name can be read.
ListHasWorkload(procs) ==
    \E i \in DOMAIN procs :
        /\ ~procs[i].nameErr
        /\ HasAnyPrefix(procs[i].name, oraProcessPrefixes)

\* One iteration of the range over chs; after the last one the number of full
\* channels is logged and CommonDiscovery waits.
FanSend ==
    /\ ProcessAlive
    /\ fanPc = "send"
    /\ LET r == TrySend(chans[fanIdx], chanCap[fanIdx], DiscoveryMessage(listed.procs)) IN
          /\ chans' = [chans EXCEPT ![fanIdx] = r.q]
          /\ fullChs' = fullChs + r.full
          /\ workloadDelivered' =
                (workloadDelivered
                 \/ (fanIdx = CommonCh /\ r.full = 0 /\ ListHasWorkload(listed.procs)))
    /\ fanIdx' = fanIdx + 1
    /\ IF fanIdx = Len(chans)
       THEN /\ fanPc' = "wait"
            /\ listed' = NoListing
       ELSE UNCHANGED <<fanPc, listed>>
    /\ UNCHANGED <<chanCap, CommonCh, handledOrigins>>
    /\ UNCHANGED <<daemonVars, ctxCancelled, configVars, collectVars, logVars, serviceVars>>

\* FanSelectCases for a select with a default case that ends the loop.
FanSelectCasesWithDefault(cancelled) == {"tick", "done"}

\* The cases of the select of CommonDiscovery that can be taken: the ticker
\* fires sooner or later, ctx.Done() is ready once the context is cancelled.
FanSelectCases(cancelled) == {"tick"} \cup (IF cancelled THEN {"done"} ELSE {})

\* select { case <-ctx.Done(): return; case <-ticker.C: continue }
FanWait ==
    /\ ProcessAlive
    /\ fanPc = "wait"
    /\ \E c \in FanSelectCases(ctxCancelled) :
          fanPc' = IF c = "done" THEN "cancelled" ELSE "list"
    /\ UNCHANGED <<fanIdx, fullChs, listed>>
    /\ UNCHANGED <<daemonVars, ctxCancelled, configVars, collectVars, logVars, serviceVars, chanVars>>

\* The reader of a channel of chs other than the Oracle service's takes a
\* message, at any time or never.
Consume ==
    /\ ProcessAlive
    /\ \E i \in DOMAIN chans :
          /\ i # CommonCh
          /\ chans[i] # <<>>
          /\ chans' = [chans EXCEPT ![i] = Tail(@)]
    /\ UNCHANGED <<chanCap, CommonCh, workloadDelivered, handledOrigins>>
    /\ UNCHANGED <<daemonVars, ctxCancelled, configVars, collectVars, logVars, serviceVars, fanVars>>

\* cancel() of the context the routines were started under.
CancelCtx ==
    /\ ~ctxCancelled
    /\ ctxCancelled' = TRUE
    /\ UNCHANGED <<daemonVars, configVars, collectVars, logVars, serviceVars, fanVars, chanVars>>

(***************************************************************************)
(* daemon.Daemon                                                           *)
(***************************************************************************)
\* The signals registered with signal.Notify (os.Interrupt is SIGINT).
NotifiedSignals == {"SIGINT", "SIGTERM"}

\* The signals an operator or the service manager ends the agent with.
ShutdownSignals == {"SIGINT", "SIGTERM", "SIGHUP"}

\* What Execute returns when startdaemonHandler returned handlerErr: the
\* result of the handler is not used.
ExecuteReturn(handlerErr) == "nil"

\* The exit code of the command for what Execute returned.
ExitCode(result) == IF result = "nil" THEN 0 ELSE 1

\* configuration.Load at the head of startdaemonHandler: on an error the
\* handler returns it and Execute returns.
LoadConfig ==
    /\ daemonPc = "load"
    /\ \E ok \in BOOLEAN :
          IF ok
          THEN /\ daemonPc' = "startServices"
               /\ UNCHANGED <<loadErr, executeResult>>
          ELSE /\ loadErr' = TRUE
               /\ daemonPc' = "exited"
               /\ executeResult' = ExecuteReturn(TRUE)
    /\ UNCHANGED <<routinesStarted, shutdownch, lastSignal>>
    /\ UNCHANGED <<ctxCancelled, configVars, collectVars, logVars, serviceVars, fanVars, chanVars>>

\* One iteration of the range over d.services: StartRoutine(ctx) runs the
\* service's Start in a goroutine.
StartServiceRoutine ==
    /\ daemonPc = "startServices"
    /\ LET n == Cardinality(routinesStarted) + 1 IN
          /\ routinesStarted' = routinesStarted \cup {Services[n]}
          /\ startPc' = IF Services[n] = "oracle" THEN "begin" ELSE startPc
          /\ daemonPc' = IF n = Len(Services) THEN "waitSignal" ELSE daemonPc
    /\ UNCHANGED <<loadErr, shutdownch, executeResult, lastSignal>>
    /\ UNCHANGED <<inboundPc, isProcessPresent, processes, discPc, metricPc, metricTicks>>
    /\ UNCHANGED <<ctxCancelled, configVars, collectVars, logVars, fanVars, chanVars>>

\* A registered signal arrives: the runtime sends it on shutdownch without
\* blocking (the channel has capacity 1).
Signal ==
    /\ daemonPc \in {"startServices", "waitSignal", "drain"}
    /\ \E sig \in NotifiedSignals :
          /\ shutdownch' = IF Len(shutdownch) < 1 THEN Append(shutdownch, sig)
                           ELSE shutdownch
          /\ lastSignal' = sig
    /\ UNCHANGED <<daemonPc, loadErr, routinesStarted, executeResult>>
    /\ UNCHANGED <<ctxCancelled, configVars, collectVars, logVars, serviceVars, fanVars, chanVars>>

\* A signal that was not registered with signal.Notify arrives: the Go
\* runtime keeps its default for it, and for SIGHUP that is to end the
\* program at once; waitForShutdown does not run.
SignalDefault ==
    /\ daemonPc \in {"startServices", "waitSignal", "drain"}
    /\ \E sig \in ShutdownSignals \ NotifiedSignals :
          lastSignal' = sig
    /\ daemonPc' = "killed"
    /\ UNCHANGED <<loadErr, routinesStarted, shutdownch, executeResult>>
    /\ UNCHANGED <<ctxCancelled, configVars, collectVars, logVars, serviceVars, fanVars, chanVars>>

\* ShutdownObserved with the call of cancel() left out.
ShutdownObservedNoCancel ==
    /\ daemonPc = "waitSignal"
    /\ shutdownch # <<>>
    /\ shutdownch' = Tail(shutdownch)
    /\ daemonPc' = "drain"
    /\ UNCHANGED <<loadErr, routinesStarted, executeResult, lastSignal, ctxCancelled>>
    /\ UNCHANGED <<configVars, collectVars, logVars, serviceVars, fanVars, chanVars>>

\* ShutdownObserved for a supervisor that also shuts down when Start of a
\* service has returned.
ShutdownObservedOrServiceEnded ==
    /\ daemonPc = "waitSignal"
    /\ shutdownch # <<>> \/ startPc = "returned"
    /\ shutdownch' = IF shutdownch # <<>> THEN Tail(shutdownch) ELSE shutdownch
    /\ ctxCancelled' = TRUE
    /\ daemonPc' = "drain"
    /\ UNCHANGED <<loadErr, routinesStarted, executeResult, lastSignal>>
    /\ UNCHANGED <<configVars, collectVars, logVars, serviceVars, fanVars, chanVars>>

\* waitForShutdown: <-ch, then cancel() and usagemetrics.Stopped().
ShutdownObserved ==
    /\ daemonPc = "waitSignal"
    /\ shutdownch # <<>>
    /\ shutdownch' = Tail(shutdownch)
    /\ ctxCancelled' = TRUE
    /\ daemonPc' = "drain"
    /\ UNCHANGED <<loadErr, routinesStarted, executeResult, lastSignal>>
    /\ UNCHANGED <<configVars, collectVars, logVars, serviceVars, fanVars, chanVars>>

\* waitForShutdown: time.Sleep(3s), then it returns, and so do
\* startdaemonHandler and Execute.
DrainAndExit ==
    /\ daemonPc = "drain"
    /\ daemonPc' = "exited"
    /\ executeResult' = ExecuteReturn(FALSE)
    /\ UNCHANGED <<loadErr, routinesStarted, shutdownch, lastSignal>>
    /\ UNCHANGED <<ctxCancelled, configVars, collectVars, logVars, serviceVars, fanVars, chanVars>>

(***************************************************************************)
(* The query table of the Oracle metric collector                          *)
(***************************************************************************)
pga_memory_columns ==
    << [name |-> "total_pga_inuse", name_override |-> "process/pga_memory/total_used_size", metric_type |-> "METRIC_GAUGE", value_type |-> "VALUE_INT64"],
       [name |-> "total_pga_allocated", name_override |-> "process/pga_memory/total_allocated_size", metric_type |-> "METRIC_GAUGE", value_type |-> "VALUE_INT64"] >>

pga_memory_queries ==
    [name |-> "pga_memory_queries", database_role |-> "BOTH", columns |-> pga_memory_columns]

sga_memory_columns ==
    << [name |-> "component_name", name_override |-> "", metric_type |-> "METRIC_LABEL", value_type |-> "VALUE_STRING"],
       [name |-> "size", name_override |-> "process/sga_memory/size", metric_type |-> "METRIC_GAUGE", value_type |-> "VALUE_INT64"] >>

sga_memory_queries ==
    [name |-> "sga_memory_queries", database_role |-> "BOTH", columns |-> sga_memory_columns]

sys_wait_columns ==
    << [name |-> "wait_class", name_override |-> "", metric_type |-> "METRIC_LABEL", value_type |-> "VALUE_STRING"],
       [name |-> "total_waits", name_override |-> "sys_wait/count", metric_type |-> "METRIC_CUMULATIVE", value_type |-> "VALUE_INT64"],
       [name |-> "time_waited_seconds", name_override |-> "sys_wait/time", metric_type |-> "METRIC_CUMULATIVE", value_type |-> "VALUE_DOUBLE"],
       [name |-> "total_waits_fg", name_override |-> "sys_wait/foreground/count", metric_type |-> "METRIC_CUMULATIVE", value_type |-> "VALUE_INT64"],
       [name |-> "time_waited_fg_seconds", name_override |-> "sys_wait/foreground/time", metric_type |-> "METRIC_CUMULATIVE", value_type |-> "VALUE_DOUBLE"] >>

sys_wait_queries ==
    [name |-> "sys_wait_queries", database_role |-> "BOTH", columns |-> sys_wait_columns]

sys_time_columns ==
    << [name |-> "db_time_seconds", name_override |-> "sys_time/db_time", metric_type |-> "METRIC_CUMULATIVE", value_type |-> "VALUE_DOUBLE"],
       [name |-> "db_cpu_seconds", name_override |-> "sys_time/db_cpu", metric_type |-> "METRIC_CUMULATIVE", value_type |-> "VALUE_DOUBLE"],
       [name |-> "sql_execute_elapsed_time_seconds", name_override |-> "sys_time/sql_execute_elapsed_time", metric_type |-> "METRIC_CUMULATIVE", value_type |-> "VALUE_DOUBLE"],
       [name |-> "parse_time_elapsed_seconds", name_override |-> "sys_time/parse_time_elapsed", metric_type |-> "METRIC_CUMULATIVE", value_type |-> "VALUE_DOUBLE"],
       [name |-> "pl_sql_execution_elapsed_time_seconds", name_override |-> "sys_time/pl_sql_execution_elapsed_time", metric_type |-> "METRIC_CUMULATIVE", value_type |-> "VALUE_DOUBLE"],
       [name |-> "background_elapsed_time_seconds", name_override |-> "sys_time/background_elapsed_time", metric_type |-> "METRIC_CUMULATIVE", value_type |-> "VALUE_DOUBLE"] >>

sys_time_queries ==
    [name |-> "sys_time_queries", database_role |-> "BOTH", columns |-> sys_time_columns]

iostat_function_columns ==
    << [name |-> "function_name", name_override |-> "", metric_type |-> "METRIC_LABEL", value_type |-> "VALUE_STRING"],
       [name |-> "read_ops_count", name_override |-> "iostat/read_ops_count", metric_type |-> "METRIC_CUMULATIVE", value_type |-> "VALUE_INT64"],
       [name |-> "write_ops_count", name_override |-> "iostat/write_ops_count", metric_type |-> "METRIC_CUMULATIVE", value_type |-> "VALUE_INT64"],
       [name |-> "read_bytes_count", name_override |-> "iostat/read_bytes_count", metric_type |-> "METRIC_CUMULATIVE", value_type |-> "VALUE_INT64"],
       [name |-> "write_bytes_count", name_override |-> "iostat/write_bytes_count", metric_type |-> "METRIC_CUMULATIVE", value_type |-> "VALUE_INT64"],
       [name |-> "average_latency_seconds", name_override |-> "iostat/average_latency_seconds", metric_type |-> "METRIC_CUMULATIVE", value_type |-> "VALUE_DOUBLE"] >>

iostat_function_queries ==
    [name |-> "iostat_function_queries", database_role |-> "BOTH", columns |-> iostat_function_columns]

data_files_columns ==
    << [name |-> "tablespace_name", name_override |-> "", metric_type |-> "METRIC_LABEL", value_type |-> "VALUE_STRING"],
       [name |-> "file_name", name_override |-> "", metric_type |-> "METRIC_LABEL", value_type |-> "VALUE_STRING"],
       [name |-> "autoextensible", name_override |-> "", metric_type |-> "METRIC_LABEL", value_type |-> "VALUE_STRING"],
       [name |-> "total_bytes", name_override |-> "data_files/total_bytes", metric_type |-> "METRIC_GAUGE", value_type |-> "VALUE_INT64"],
       [name |-> "bytes_used", name_override |-> "data_files/bytes_used", metric_type |-> "METRIC_GAUGE", value_type |-> "VALUE_INT64"],
       [name |-> "available_bytes", name_override |-> "data_files/available_bytes", metric_type |-> "METRIC_GAUGE", value_type |-> "VALUE_INT64"],
       [name |-> "max_bytes", name_override |-> "data_files/max_bytes", metric_type |-> "METRIC_GAUGE", value_type |-> "VALUE_INT64"],
       [name |-> "percent_used", name_override |-> "data_files/percent_used", metric_type |-> "METRIC_GAUGE", value_type |-> "VALUE_DOUBLE"] >>

data_files_queries ==
    [name |-> "data_files_queries", database_role |-> "PRIMARY", columns |-> data_files_columns]

instance_uptime_columns ==
    << [name |-> "name", name_override |-> "", metric_type |-> "METRIC_LABEL", value_type |-> "VALUE_STRING"],
       [name |-> "uptime", name_override |-> "instance/uptime", metric_type |-> "METRIC_CUMULATIVE", value_type |-> "VALUE_INT64"] >>

instance_uptime_queries ==
    [name |-> "instance_uptime_queries", database_role |-> "BOTH", columns |-> instance_uptime_columns]

instance_status_columns ==
    << [name |-> "name", name_override |-> "", metric_type |-> "METRIC_LABEL", value_type |-> "VALUE_STRING"],
       [name |-> "status_int", name_override |-> "instance/status", metric_type |-> "METRIC_GAUGE", value_type |-> "VALUE_INT64"],
       [name |-> "open_mode_int", name_override |-> "instance/db_open_mode", metric_type |-> "METRIC_GAUGE", value_type |-> "VALUE_INT64"] >>

instance_status_queries ==
    [name |-> "instance_status_queries", database_role |-> "BOTH", columns |-> instance_status_columns]

data_guard_columns ==
    << [name |-> "source_dbid", name_override |-> "", metric_type |-> "METRIC_LABEL", value_type |-> "VALUE_STRING"],
       [name |-> "source_db_unique_name", name_override |-> "", metric_type |-> "METRIC_LABEL", value_type |-> "VALUE_STRING"],
       [name |-> "apply_lag_seconds", name_override |-> "dataguard/apply_lag", metric_type |-> "METRIC_GAUGE", value_type |-> "VALUE_INT64"],
       [name |-> "transport_lag_seconds", name_override |-> "dataguard/transport_lag", metric_type |-> "METRIC_GAUGE", value_type |-> "VALUE_INT64"] >>

\* data_guard_queries declared for either role.
data_guard_queries_any_role ==
    [name |-> "data_guard_queries", database_role |-> "BOTH", columns |-> data_guard_columns]

data_guard_queries ==
    [name |-> "data_guard_queries", database_role |-> "STANDBY", columns |-> data_guard_columns]

\* The queries of the table, in the order of the file.
QueryTable ==
    << pga_memory_queries,
       sga_memory_queries,
       sys_wait_queries,
       sys_time_queries,
       iostat_function_queries,
       data_files_queries,
       instance_uptime_queries,
       instance_status_queries,
       data_guard_queries >>

\* The roles an instance is found in.
Roles == {"PRIMARY", "STANDBY"}

\* A query runs against an instance of its role; BOTH is unconditional.
RoleMatches(queryRole, role) == queryRole = "BOTH" \/ queryRole = role

\* The key a column is sent under: its name_override, else its name.
OutputName(col) == IF col.name_override # "" THEN col.name_override ELSE col.name

\* The columns of a query that are metrics, not labels.
MetricColumns(q) ==
    { i \in DOMAIN q.columns :
        q.columns[i].metric_type \in {"METRIC_GAUGE", "METRIC_CUMULATIVE"} }

OutputNames(q) == { OutputName(q.columns[i]) : i \in MetricColumns(q) }

\* The keys of the columns the table declares METRIC_CUMULATIVE.
CumulativeKeys ==
    UNION { { OutputName(QueryTable[n].columns[i]) :
                i \in { c \in DOMAIN QueryTable[n].columns :
                          QueryTable[n].columns[c].metric_type = "METRIC_CUMULATIVE" } } :
            n \in DOMAIN QueryTable }

\* CASE WHEN number_of_waits > 0 THEN (wait_time / number_of_waits) / 1000
\* ELSE 0 END, in thousandths (the whole part).
average_latency_seconds(wt, n) == IF n > 0 THEN wt \div n ELSE 0

\* The keys whose values are computed here, and the value the query returns
\* for each in the present state of the database.
ModelledKeys == {"iostat/average_latency_seconds", "instance/uptime"}

SqlValue(k) ==
    IF k = "iostat/average_latency_seconds"
    THEN average_latency_seconds(waitTime, numberOfWaits)
    ELSE uptime

(***************************************************************************)
(* The database: the counters of V$IOSTAT_FUNCTION accumulate from the    *)
(* startup of the instance, and the time since startup_time grows.        *)
(***************************************************************************)
DbIo ==
    /\ \E dn \in 0..1, dt \in 0..1 :
          /\ dn + dt > 0
          /\ numberOfWaits + dn <= MaxCount
          /\ waitTime + dt <= MaxCount
          /\ numberOfWaits' = numberOfWaits + dn
          /\ waitTime' = waitTime + dt
    /\ UNCHANGED <<uptime, engineVars, wlmVars, initVars, onceVars, mutexVars>>
    /\ UNCHANGED <<daemonVars, ctxCancelled, configVars, serviceVars, fanVars, chanVars, logVars>>

DbClock ==
    /\ uptime < MaxCount
    /\ uptime' = uptime + 1
    /\ UNCHANGED <<numberOfWaits, waitTime, engineVars, wlmVars, initVars, onceVars, mutexVars>>
    /\ UNCHANGED <<daemonVars, ctxCancelled, configVars, serviceVars, fanVars, chanVars, logVars>>

(***************************************************************************)
(* The query engine, run by the ticker case of runMetricCollection         *)
(***************************************************************************)
\* The top of a tick: the role of the instance is refreshed.
EngineTick ==
    /\ ProcessAlive
    /\ metricPc = "select"
    /\ enginePc = "idle"
    /\ \E r \in Roles : dbRole' = r
    /\ executed' = {}
    /\ tickOutput' = {}
    /\ queryErrors' = 0
    /\ qIdx' = 1
    /\ enginePc' = "queries"
    /\ UNCHANGED <<emitted, dbVars, wlmVars, initVars, onceVars, mutexVars>>
    /\ UNCHANGED <<daemonVars, ctxCancelled, configVars, serviceVars, fanVars, chanVars, logVars>>

\* emitted after the values of the keys ks were sent.
Emit(ks) ==
    [k \in DOMAIN emitted \cup (ks \cap ModelledKeys) |->
        IF k \in ks THEN SqlValue(k) ELSE emitted[k]]

\* The query at qIdx: skipped when its role does not match; else it is run,
\* and unless it fails each metric column of its row is sent under its key.
EngineQuery ==
    /\ ProcessAlive
    /\ enginePc = "queries"
    /\ LET q == QueryTable[qIdx] IN
          IF RoleMatches(q.database_role, dbRole)
          THEN /\ executed' = executed \cup {q.name}
               /\ \E ok \in (IF queryErrors < MaxQueryErrors THEN BOOLEAN ELSE {TRUE}) :
                     IF ok
                     THEN /\ tickOutput' = tickOutput \cup OutputNames(q)
                          /\ emitted' = Emit(OutputNames(q))
                          /\ UNCHANGED queryErrors
                     ELSE /\ queryErrors' = queryErrors + 1
                          /\ UNCHANGED <<tickOutput, emitted>>
          ELSE UNCHANGED <<executed, tickOutput, emitted, queryErrors>>
    /\ qIdx' = qIdx + 1
    /\ enginePc' = IF qIdx = Len(QueryTable) THEN "idle" ELSE "queries"
    /\ UNCHANGED <<dbRole, dbVars, wlmVars, initVars, onceVars, mutexVars>>
    /\ UNCHANGED <<daemonVars, ctxCancelled, configVars, serviceVars, fanVars, chanVars, logVars>>

(***************************************************************************)
(* workloadmanager: the override loop and the insight shipper              *)
(***************************************************************************)
\* The cloud properties of the host.
CloudProps ==
    [InstanceId |-> "instance-id", ProjectId |-> "project-id",
     InstanceName |-> "instance-name", Region |-> "region"]

\* configuration.AgentVersion
AgentVersion == "agent-version"

\* A batch.
WorkloadMetrics(wt, metrics) == [WorkloadType |-> wt, Metrics |-> metrics]

PostgresBatch == WorkloadMetrics("POSTGRES", [k \in {"work_mem"} |-> "83886080"])
OracleBatch == WorkloadMetrics("ORACLE", [k \in {"pga_size"} |-> "1"])
MysqlBatch == WorkloadMetrics("MYSQL", [k \in {"buffer_pool_size"} |-> "2"])

\* Override files: a file is the sequence of its lines, a line the sequence
\* of its characters.
\* A file without lines.
FileEmpty == <<>>

\* One header and one metric.
FilePostgres ==
    << \* workload_type: POSTGRES
       <<"w","o","r","k","l","o","a","d","_","t","y","p","e",":"," ","P","O","S","T","G","R","E","S">>,
       \* work_mem: 83886080
       <<"w","o","r","k","_","m","e","m",":"," ","8","3","8","8","6","0","8","0">> >>

\* Two headers; an empty line, a comment, a line without a colon and a key
\* that is given twice.
FileOracleMysql ==
    << \* (an empty line)
       <<>>,
       \* workload_type: ORACLE
       <<"w","o","r","k","l","o","a","d","_","t","y","p","e",":"," ","O","R","A","C","L","E">>,
       \* # c: d
       <<"#"," ","c",":"," ","d">>,
       \* pga_size: 0
       <<"p","g","a","_","s","i","z","e",":"," ","0">>,
       \* no colon
       <<"n","o"," ","c","o","l","o","n">>,
       \* pga_size : 1
       <<"p","g","a","_","s","i","z","e"," ",":"," ","1">>,
       \* workload_type:MYSQL
       <<"w","o","r","k","l","o","a","d","_","t","y","p","e",":","M","Y","S","Q","L">>,
       \* buffer_pool_size: 2
       <<"b","u","f","f","e","r","_","p","o","o","l","_","s","i","z","e",":"," ","2">> >>

\* A metric before the only header.
FileMetricFirst ==
    << \* pga_size: 1
       <<"p","g","a","_","s","i","z","e",":"," ","1">>,
       \* workload_type: ORACLE
       <<"w","o","r","k","l","o","a","d","_","t","y","p","e",":"," ","O","R","A","C","L","E">> >>

\* A header without a workload type, then a header with one.
FileEmptyHeader ==
    << \* workload_type:
       <<"w","o","r","k","l","o","a","d","_","t","y","p","e",":">>,
       \* workload_type: MYSQL
       <<"w","o","r","k","l","o","a","d","_","t","y","p","e",":"," ","M","Y","S","Q","L">>,
       \* buffer_pool_size: 2
       <<"b","u","f","f","e","r","_","p","o","o","l","_","s","i","z","e",":"," ","2">> >>

OverrideFiles == {FileEmpty, FilePostgres, FileOracleMysql, FileMetricFirst, FileEmptyHeader}

\* The string of a sequence of characters.
RECURSIVE Str(_)
Str(cs) == IF cs = <<>> THEN "" ELSE cs[1] \o Str(Tail(cs))

\* The index of the first c in s from i on, 0 if there is none.
RECURSIVE IndexOf(_, _, _)
IndexOf(s, c, i) ==
    IF i > Len(s) THEN 0
    ELSE IF s[i] = c THEN i
    ELSE IndexOf(s, c, i + 1)

\* strings.Cut(s, sep) for a separator of one character.
Cut(s, sep) ==
    LET i == IndexOf(s, sep, 1) IN
       IF i = 0 THEN [before |-> s, after |-> <<>>, found |-> FALSE]
       ELSE [before |-> SubSeq(s, 1, i - 1), after |-> SubSeq(s, i + 1, Len(s)),
             found |-> TRUE]

\* strings.TrimSpace for the white space of the files: blanks.
RECURSIVE TrimLeft(_)
TrimLeft(s) == IF s # <<>> /\ s[1] = " " THEN TrimLeft(Tail(s)) ELSE s
RECURSIVE TrimRight(_)
TrimRight(s) ==
    IF s # <<>> /\ s[Len(s)] = " " THEN TrimRight(SubSeq(s, 1, Len(s) - 1)) ELSE s
TrimSpace(s) == TrimRight(TrimLeft(s))

\* What getMetric makes of a line before it looks at the key: <<>> for a
\* line it skips (an empty line, a comment, a line without a colon), else
\* the key and the value, cut at the first colon and trimmed.
CutLine(line) ==
    IF line = <<>> \/ HasPrefix(line, <<"#">>) THEN <<>>
    ELSE LET c == Cut(line, ":") IN
            IF ~c.found THEN <<>>
            ELSE <<Str(TrimSpace(c.before)), Str(TrimSpace(c.after))>>

\* What is at MetricOverridePath: no file, or one of the files.
NoOverrideFile == [exists |-> FALSE, lines |-> <<>>]
OverrideFileStates ==
    {NoOverrideFile} \cup {[exists |-> TRUE, lines |-> f] : f \in OverrideFiles}

\* The loop of collectOverrideMetrics over metricEmitter.getMetric from line
\* i, with the workload type and the metrics of the emitter and the batches
\* appended so far: a workload_type line after the first ends a batch, the
\* end of the file ends the last one.
RECURSIVE getMetric(_, _, _, _, _)
getMetric(lines, i, workloadType, metrics, acc) ==
    IF i > Len(lines) THEN Append(acc, WorkloadMetrics(workloadType, metrics))
    ELSE LET line == CutLine(lines[i]) IN
         IF line = <<>> THEN getMetric(lines, i + 1, workloadType, metrics, acc)
         ELSE IF line[1] = "workload_type"
         THEN IF workloadType = ""
              THEN getMetric(lines, i + 1, line[2], metrics, acc)
              ELSE getMetric(lines, i + 1, line[2], <<>>,
                             Append(acc, WorkloadMetrics(workloadType, metrics)))
         ELSE getMetric(lines, i + 1, workloadType,
                        [k \in DOMAIN metrics \cup {line[1]} |->
                            IF k = line[1] THEN line[2] ELSE metrics[k]],
                        acc)

\* collectOverrideMetrics for a loop that ends at the first batch.
collectOverrideMetricsFirstOnly(file) ==
    IF ~file.exists THEN <<>>
    ELSE SubSeq(getMetric(file.lines, 1, "", <<>>, <<>>), 1, 1)

\* collectOverrideMetrics: no batch when the file cannot be read, else the
\* batches of its lines.
collectOverrideMetrics(file) ==
    IF ~file.exists THEN <<>>
    ELSE getMetric(file.lines, 1, "", <<>>, <<>>)

\* The translation of the workload type.
workloadTypeMap ==
    [wt \in {"ORACLE", "MYSQL", "REDIS", "UNKNOWN"} |->
        IF wt = "UNKNOWN" THEN "WORKLOAD_TYPE_UNSPECIFIED" ELSE wt]

createWriteInsightRequest(w, cp) ==
    LET workloadType == IF w.WorkloadType \in DOMAIN workloadTypeMap
                        THEN workloadTypeMap[w.WorkloadType]
                        ELSE "WORKLOAD_TYPE_UNSPECIFIED"
    IN  [Insight |->
           [InstanceId |-> cp.InstanceId,
            TorsoValidation |->
              [WorkloadType |-> workloadType,
               ValidationDetails |-> w.Metrics,
               ProjectId |-> cp.ProjectId,
               InstanceName |-> cp.InstanceName,
               AgentVersion |-> AgentVersion]]]

SendFailedMsg == "Failed to send metrics to Data Warehouse"

\* readAndLogMetricOverrideYAML: without a readable override file
\* CollectAndSendMetricsToDataWarehouse returns, else its loop begins.
WlmStart ==
    /\ ProcessAlive
    /\ wlmPc = "idle"
    /\ wlmPc' = IF overrideFile.exists THEN "collect" ELSE "noOverride"
    /\ UNCHANGED <<wlmTick, wm, spawnIdx, shippers, results, wgCount, insights,
                   failedTicks, deliveredTicks, overrideFile>>
    /\ UNCHANGED <<dbVars, engineVars, initVars, onceVars, mutexVars>>
    /\ UNCHANGED <<daemonVars, ctxCancelled, configVars, serviceVars, fanVars, chanVars, logVars>>

\* The top of the loop: collectOverrideMetrics reads the file again; the
\* batches go to sendMetricsToDataWarehouse.
WlmCollect ==
    /\ ProcessAlive
    /\ wlmPc = "collect"
    /\ wlmTick < MaxWlmTicks
    /\ wlmTick' = wlmTick + 1
    /\ wm' = collectOverrideMetrics(overrideFile)
    /\ spawnIdx' = 1
    /\ results' = <<>>
    /\ wlmPc' = "spawn"
    /\ UNCHANGED <<shippers, wgCount, insights, failedTicks, deliveredTicks, overrideFile>>
    /\ UNCHANGED <<dbVars, engineVars, initVars, onceVars, mutexVars>>
    /\ UNCHANGED <<daemonVars, ctxCancelled, configVars, serviceVars, fanVars, chanVars, logVars>>

\* One iteration of the range over params.wm: wg.Add(1) and a goroutine for
\* the batch; after the last one the caller is at wg.Wait().
WlmSpawn ==
    /\ ProcessAlive
    /\ wlmPc = "spawn"
    /\ IF spawnIdx <= Len(wm)
       THEN /\ wgCount' = wgCount + 1
            /\ shippers' = shippers \cup {spawnIdx}
            /\ spawnIdx' = spawnIdx + 1
            /\ UNCHANGED wlmPc
       ELSE /\ wlmPc' = "wait"
            /\ UNCHANGED <<wgCount, shippers, spawnIdx>>
    /\ UNCHANGED <<wlmTick, wm, results, insights, failedTicks, deliveredTicks, overrideFile>>
    /\ UNCHANGED <<dbVars, engineVars, initVars, onceVars, mutexVars>>
    /\ UNCHANGED <<daemonVars, ctxCancelled, configVars, serviceVars, fanVars, chanVars, logVars>>

\* The goroutine of batch i: SendDataInsight builds the request and calls
\* WriteInsightAndGetResponse; an error is logged and returned, and the
\* goroutine drops what SendDataInsight returned; wg.Done().
Shipper ==
    /\ ProcessAlive
    /\ \E i \in shippers, rpcErr \in BOOLEAN :
          /\ insights' = insights \cup
                {[tick |-> wlmTick, wm |-> wm[i],
                  req |-> createWriteInsightRequest(wm[i], CloudProps)]}
          /\ results' = [j \in DOMAIN results \cup {i} |->
                            IF j = i THEN rpcErr ELSE results[j]]
          /\ IF rpcErr
             THEN /\ errorLog' = errorLog \cup {SendFailedMsg}
                  /\ failedTicks' = failedTicks \cup {wlmTick}
                  /\ UNCHANGED deliveredTicks
             ELSE /\ deliveredTicks' = deliveredTicks \cup {wlmTick}
                  /\ UNCHANGED <<errorLog, failedTicks>>
          /\ shippers' = shippers \ {i}
    /\ wgCount' = wgCount - 1
    /\ UNCHANGED <<wlmPc, wlmTick, wm, spawnIdx, overrideFile>>
    /\ UNCHANGED <<dbVars, engineVars, initVars, onceVars, mutexVars>>
    /\ UNCHANGED <<daemonVars, ctxCancelled, configVars, serviceVars, fanVars, chanVars>>

\* WaitGroupDone for a Wait that does not wait.
WaitGroupDoneAlways(n) == TRUE

\* wg.Wait() returns when the counter is zero.
WaitGroupDone(n) == n = 0

\* LoopAfterSend for a loop that ends when a shipment failed.
LoopAfterSendAbort(errs) == IF TRUE \in errs THEN "returned" ELSE "select"

\* sendMetricsToDataWarehouse returns nothing: whatever the goroutines got,
\* the loop goes on to its select.
LoopAfterSend(errs) == "select"

\* wg.Wait() returns, and so does sendMetricsToDataWarehouse.
WlmWait ==
    /\ ProcessAlive
    /\ wlmPc = "wait"
    /\ WaitGroupDone(wgCount)
    /\ wlmPc' = LoopAfterSend({results[j] : j \in DOMAIN results})
    /\ UNCHANGED <<wlmTick, wm, spawnIdx, shippers, results, wgCount, insights,
                   failedTicks, deliveredTicks, overrideFile>>
    /\ UNCHANGED <<dbVars, engineVars, initVars, onceVars, mutexVars>>
    /\ UNCHANGED <<daemonVars, ctxCancelled, configVars, serviceVars, fanVars, chanVars, logVars>>

\* select { case <-ctx.Done(): return; case <-ticker.C: continue }
WlmSelect ==
    /\ ProcessAlive
    /\ wlmPc = "select"
    /\ \E c \in {"tick"} \cup (IF ctxCancelled THEN {"done"} ELSE {}) :
          wlmPc' = IF c = "done" THEN "returned" ELSE "collect"
    /\ UNCHANGED <<wlmTick, wm, spawnIdx, shippers, results, wgCount, insights,
                   failedTicks, deliveredTicks, overrideFile>>
    /\ UNCHANGED <<dbVars, engineVars, initVars, onceVars, mutexVars>>
    /\ UNCHANGED <<daemonVars, ctxCancelled, configVars, serviceVars, fanVars, chanVars, logVars>>

(***************************************************************************)
(* InitDB of the MySQL and Postgres metric collectors                      *)
(***************************************************************************)
\* The connection parameters of a configuration.
ConnectionParameters ==
    [Password : {"", "config-password"},
     Secret : [ProjectId : {"", "fake-project-id"},
               SecretName : {"", "fake-secret-name"}]]

\* The test double of the secret store: GetSecret returns what it was built
\* with.
GetSecret(gce) == gce

\* SecretConfigured for a reference that needs one of its fields only.
SecretConfiguredEither(ref) == ref.ProjectId # "" \/ ref.SecretName # ""

\* A secret reference without project_id or secret_name is no reference.
SecretConfigured(ref) == ref.ProjectId # "" /\ ref.SecretName # ""

\* The password of the data source: the secret of a reference that is
\* configured, fetched from the secret store (a failure is an error), else
\* the password of the configuration, which may be empty.
password(cfg, gce) ==
    IF SecretConfigured(cfg.Secret)
    THEN LET r == GetSecret(gce) IN
         IF r.err THEN [pw |-> "", err |-> TRUE, fetched |-> TRUE]
         ELSE [pw |-> r.secret, err |-> FALSE, fetched |-> TRUE]
    ELSE [pw |-> cfg.Password, err |-> FALSE, fetched |-> FALSE]

\* InitDB is called with a configuration, a secret store and a driver.
InitDBCall ==
    /\ initPc = "idle"
    /\ \E cfg \in ConnectionParameters, fetchErr \in BOOLEAN,
          ce \in BOOLEAN, pe \in BOOLEAN :
          /\ dbConfig' = cfg
          /\ gceSecret' = [secret |-> "fake-password", err |-> fetchErr]
          /\ connectErr' = ce
          /\ pingErr' = pe
    /\ initPc' = "password"
    /\ UNCHANGED <<secretFetched, dbPassword, initResult>>
    /\ UNCHANGED <<dbVars, engineVars, wlmVars, onceVars, mutexVars>>
    /\ UNCHANGED <<daemonVars, ctxCancelled, configVars, serviceVars, fanVars, chanVars, logVars>>

\* The password is resolved; an error ends InitDB.
InitPassword ==
    /\ initPc = "password"
    /\ LET r == password(dbConfig, gceSecret) IN
          /\ secretFetched' = r.fetched
          /\ dbPassword' = r.pw
          /\ IF r.err
             THEN initPc' = "done" /\ initResult' = "passwordErr"
             ELSE initPc' = "open" /\ UNCHANGED initResult
    /\ UNCHANGED <<dbConfig, gceSecret, connectErr, pingErr>>
    /\ UNCHANGED <<dbVars, engineVars, wlmVars, onceVars, mutexVars>>
    /\ UNCHANGED <<daemonVars, ctxCancelled, configVars, serviceVars, fanVars, chanVars, logVars>>

\* The handle is opened on the data source; an error ends InitDB.
InitOpen ==
    /\ initPc = "open"
    /\ IF connectErr
       THEN initPc' = "done" /\ initResult' = "connectErr"
       ELSE initPc' = "ping" /\ UNCHANGED initResult
    /\ UNCHANGED <<dbConfig, gceSecret, connectErr, pingErr, secretFetched, dbPassword>>
    /\ UNCHANGED <<dbVars, engineVars, wlmVars, onceVars, mutexVars>>
    /\ UNCHANGED <<daemonVars, ctxCancelled, configVars, serviceVars, fanVars, chanVars, logVars>>

\* ProbeResult for an InitDB that does not look at what Ping returns.
ProbeResultIgnored(err) == "ok"

\* What InitDB returns after the liveness probe.
ProbeResult(err) == IF err THEN "pingErr" ELSE "ok"

\* The liveness probe.
InitPing ==
    /\ initPc = "ping"
    /\ initPc' = "done"
    /\ initResult' = ProbeResult(pingErr)
    /\ UNCHANGED <<dbConfig, gceSecret, connectErr, pingErr, secretFetched, dbPassword>>
    /\ UNCHANGED <<dbVars, engineVars, wlmVars, onceVars, mutexVars>>
    /\ UNCHANGED <<daemonVars, ctxCancelled, configVars, serviceVars, fanVars, chanVars, logVars>>

(***************************************************************************)
(* CollectMetricsOnce of the MySQL and Postgres metric collectors          *)
(***************************************************************************)
\* The keys of the metrics and the roles of a MySQL instance.
bufferPoolKey == "buffer_pool_size"
totalRAMKey == "total_ram"
innoDBKey == "is_inno_db_default"
currentRoleKey == "current_role"
replicationZonesKey == "replication_zones"
workMemKey == "work_mem"
sourceRole == "source"
replicaRole == "replica"

\* The queries testDB.QueryContext knows, and the command of totalRAM.
EnginesQuery == "SHOW ENGINES"
BufferPoolQuery == "SELECT @@innodb_buffer_pool_size"
ReplicaStatusQuery == "SHOW REPLICA STATUS"
SlaveStatusQuery == "SHOW SLAVE STATUS"
replicationZonesQuery == "replicationZonesQuery"
WorkMemQuery == "SHOW work_mem"
MemTotalCommand == "MemTotal"

\* The queries of a collector that return a metric or an error.
MetricQueries(kind) ==
    IF kind = "MYSQL" THEN {BufferPoolQuery, MemTotalCommand, EnginesQuery}
    ELSE {WorkMemQuery}

\* The key under which the metric of a query is collected.
QueryKey(q) ==
    CASE q = BufferPoolQuery -> bufferPoolKey
      [] q = MemTotalCommand -> totalRAMKey
      [] q = EnginesQuery -> innoDBKey
      [] q = WorkMemQuery -> workMemKey

\* m with the value v under the key k.
Put(m, k, v) == [x \in DOMAIN m \cup {k} |-> IF x = k THEN v ELSE m[x]]

\* AfterQueryError for a tick that ends at the first query that fails.
AfterQueryErrorReturn(next) == "return"

\* Where CollectMetricsOnce goes after a query that failed: to the next query.
AfterQueryError(next) == next

\* A query that returns one metric: when it fails an error is recorded and
\* nothing is collected for it.
QueryStep(q, v, next) ==
    /\ onceExecuted' = onceExecuted \cup {q}
    /\ \E err \in BOOLEAN :
          /\ onceIn' = [query |-> q, err |-> err]
          /\ IF err
             THEN /\ onceErrs' = onceErrs \cup {q}
                  /\ oncePc' = AfterQueryError(next)
                  /\ UNCHANGED onceMetrics
             ELSE /\ onceMetrics' = Put(onceMetrics, QueryKey(q), v)
                  /\ oncePc' = next
                  /\ UNCHANGED onceErrs
    /\ UNCHANGED <<onceKind, onceWlm, onceZones, onceRpcs, onceResult>>
    /\ UNCHANGED <<dbVars, engineVars, wlmVars, initVars, mutexVars>>
    /\ UNCHANGED <<daemonVars, ctxCancelled, configVars, serviceVars, fanVars, chanVars, logVars>>

\* CollectMetricsOnce is called on a MySQL or on a Postgres collector.
OnceCall ==
    /\ oncePc = "idle"
    /\ \E kind \in {"MYSQL", "POSTGRES"} :
          /\ onceKind' = kind
          /\ oncePc' = IF kind = "MYSQL" THEN "bufferPoolSize" ELSE "workMem"
    /\ UNCHANGED <<onceIn, onceWlm, onceExecuted, onceErrs, onceMetrics, onceZones,
                   onceRpcs, onceResult>>
    /\ UNCHANGED <<dbVars, engineVars, wlmVars, initVars, mutexVars>>
    /\ UNCHANGED <<daemonVars, ctxCancelled, configVars, serviceVars, fanVars, chanVars, logVars>>

OnceBufferPool ==
    /\ oncePc = "bufferPoolSize"
    /\ QueryStep(BufferPoolQuery, "134217728", "totalRAM")

OnceTotalRAM ==
    /\ oncePc = "totalRAM"
    /\ QueryStep(MemTotalCommand, "4121640960", "isInnoDB")

OnceInnoDB ==
    /\ oncePc = "isInnoDB"
    /\ QueryStep(EnginesQuery, "true", "currentRole")

\* What a status query returns: rows, no row, or an error.
StatusResults == {"rows", "none", "err"}

\* currentRole for a collector that asks SHOW REPLICA STATUS only.
currentRoleNoFallback(replica, slave) ==
    IF replica = "rows" THEN replicaRole ELSE sourceRole

\* The role of the instance: replica when SHOW REPLICA STATUS has a row, or
\* else when SHOW SLAVE STATUS has one; source otherwise.
currentRole(replica, slave) ==
    IF replica = "rows" THEN replicaRole
    ELSE IF slave = "rows" THEN replicaRole
    ELSE sourceRole

OnceRole ==
    /\ oncePc = "currentRole"
    /\ \E replica \in StatusResults, slave \in StatusResults :
          /\ onceIn' = [replica |-> replica, slave |-> slave]
          /\ onceExecuted' = onceExecuted \cup {ReplicaStatusQuery} \cup
                (IF replica = "rows" THEN {} ELSE {SlaveStatusQuery})
          /\ onceMetrics' = Put(onceMetrics, currentRoleKey, currentRole(replica, slave))
    /\ oncePc' = "replicationZones"
    /\ UNCHANGED <<onceKind, onceWlm, onceErrs, onceZones, onceRpcs, onceResult>>
    /\ UNCHANGED <<dbVars, engineVars, wlmVars, initVars, mutexVars>>
    /\ UNCHANGED <<daemonVars, ctxCancelled, configVars, serviceVars, fanVars, chanVars, logVars>>

\* Addresses and names, as their dot-separated components.
Ip1 == <<"1", "2", "3", "4">>
Ip2 == <<"5", "6", "7", "8">>
IpUnresolved == <<"8", "8", "8", "8">>
InvalidIp == <<"1", "241234", "3", "4">>
Fqdn1 == <<"testname", "test-zone", "c", "fake-project", "internal", "">>
Fqdn2 == <<"testname", "test-zone2", "c", "fake-project", "internal", "">>
ReplicaAddresses == {Ip1, Ip2, IpUnresolved, InvalidIp, Fqdn1}

\* The components an IP address is made of.
Octets == {"1", "2", "3", "4", "5", "6", "7", "8"}

\* mockNetInterface
ParseIP(a) == Len(a) = 4 /\ \A i \in 1..4 : a[i] \in Octets
lookupAddrValue == [a \in {Ip1, Ip2} |-> IF a = Ip1 THEN <<Fqdn1>> ELSE <<Fqdn2>>]
lookupAddrErr == {IpUnresolved}
lookupHostValue == [a \in {Fqdn1} |-> <<"valid">>]
lookupHostErr == {InvalidIp}
LookupAddr(a) ==
    IF a \in lookupAddrErr THEN [names |-> <<>>, err |-> TRUE]
    ELSE [names |-> lookupAddrValue[a], err |-> FALSE]
LookupHost(a) ==
    IF a \in lookupHostErr THEN [addrs |-> <<>>, err |-> TRUE]
    ELSE [addrs |-> lookupHostValue[a], err |-> FALSE]

\* ZoneOf for a resolver that takes the first component.
ZoneOfFirst(fqdn) == fqdn[1]

\* The zone of a fully qualified name: its second component.
ZoneOf(fqdn) == fqdn[2]

\* The zone of a replica address, as a sequence: empty when the address
\* cannot be resolved.
ResolveZone(a) ==
    IF ParseIP(a)
    THEN LET r == LookupAddr(a) IN
         IF r.err THEN <<>> ELSE <<ZoneOf(r.names[1])>>
    ELSE LET r == LookupHost(a) IN
         IF r.err THEN <<>> ELSE <<ZoneOf(a)>>

\* zs, and z when zs does not hold it.
AppendNew(zs, z) ==
    IF \E i \in DOMAIN zs : zs[i] = z THEN zs ELSE Append(zs, z)

\* The zones of the addresses rows[i..], added to acc without duplicates.
RECURSIVE ZonesFrom(_, _, _)
ZonesFrom(rows, i, acc) ==
    IF i > Len(rows) THEN acc
    ELSE LET z == ResolveZone(rows[i]) IN
         ZonesFrom(rows, i + 1, IF z = <<>> THEN acc ELSE AppendNew(acc, z[1]))

\* replicationZones: nothing for a replica and nothing when the query fails.
replicationZones(role, rows, err) ==
    IF role # sourceRole \/ err THEN <<>> ELSE ZonesFrom(rows, 1, <<>>)

\* strings.Join(zs, ",")
RECURSIVE Join(_)
Join(zs) ==
    IF zs = <<>> THEN ""
    ELSE IF Len(zs) = 1 THEN zs[1]
    ELSE zs[1] \o "," \o Join(Tail(zs))

\* The rows the replication zones query may return.
ReplicaRows == UNION {[1..n -> ReplicaAddresses] : n \in 0..MaxReplicas}

OnceZones ==
    /\ oncePc = "replicationZones"
    /\ \E rows \in ReplicaRows, err \in BOOLEAN :
          /\ onceIn' = [rows |-> rows, err |-> err]
          /\ onceZones' = replicationZones(onceMetrics[currentRoleKey], rows, err)
    /\ onceExecuted' = onceExecuted \cup
          (IF onceMetrics[currentRoleKey] = sourceRole THEN {replicationZonesQuery} ELSE {})
    /\ onceMetrics' = Put(onceMetrics, replicationZonesKey, Join(onceZones'))
    /\ oncePc' = "send"
    /\ UNCHANGED <<onceKind, onceWlm, onceErrs, onceRpcs, onceResult>>
    /\ UNCHANGED <<dbVars, engineVars, wlmVars, initVars, mutexVars>>
    /\ UNCHANGED <<daemonVars, ctxCancelled, configVars, serviceVars, fanVars, chanVars, logVars>>

(***************************************************************************)
(* work_mem of Postgres: a number and a unit, sent as a number of bytes.   *)
(* Numbers beyond 31 bits are kept as sequences of limbs below LimbBase,   *)
(* the lowest first, as the int of the collector has 64 bits.              *)
(***************************************************************************)
DigitChars == <<"0", "1", "2", "3", "4", "5", "6", "7", "8", "9">>
CharDigit(c) == CHOOSE d \in 0..9 : DigitChars[d + 1] = c

LimbBase == 1000000
LimbDigits == 6

\* The decimal digits of a natural number below 2^31.
RECURSIVE ItoaSmall(_)
ItoaSmall(v) ==
    IF v < 10 THEN <<DigitChars[v + 1]>>
    ELSE Append(ItoaSmall(v \div 10), DigitChars[(v % 10) + 1])

\* The decimal value of a sequence of digits, below 2^31.
RECURSIVE AtoiSmall(_)
AtoiSmall(cs) ==
    IF cs = <<>> THEN 0
    ELSE AtoiSmall(SubSeq(cs, 1, Len(cs) - 1)) * 10 + CharDigit(cs[Len(cs)])

\* l * m + carry, for limbs l.
RECURSIVE MulLimbs(_, _, _)
MulLimbs(l, m, carry) ==
    IF l = <<>> THEN (IF carry = 0 THEN <<>> ELSE <<carry>>)
    ELSE LET v == Head(l) * m + carry IN
         <<v % LimbBase>> \o MulLimbs(Tail(l), m, v \div LimbBase)

\* The LimbDigits digits of a limb that is not the highest.
RECURSIVE PadLimb(_, _)
PadLimb(v, n) ==
    IF n = 0 THEN <<>>
    ELSE Append(PadLimb(v \div 10, n - 1), DigitChars[(v % 10) + 1])

\* strconv.Itoa of limbs.
RECURSIVE ItoaLimbs(_)
ItoaLimbs(l) ==
    IF Len(l) = 1 THEN ItoaSmall(l[1])
    ELSE ItoaLimbs(Tail(l)) \o PadLimb(Head(l), LimbDigits)

\* The text of a reading: the digits of n and the unit.
Units == {<<"k", "B">>, <<"M", "B">>, <<"G", "B">>}
WorkMemNumbers == {1, 4, 64, 80, 2047}
ReadingText(n, unit) == ItoaSmall(n) \o unit
WorkMemReadings ==
    {[n |-> n, unit |-> u, text |-> ReadingText(n, u)] : n \in WorkMemNumbers, u \in Units}

\* UnitExponent for a collector that takes GB for MB.
UnitExponentNoGB(unit) ==
    CASE unit = <<"k", "B">> -> 1
      [] unit = <<"M", "B">> -> 2
      [] unit = <<"G", "B">> -> 2

\* The power of 1024 a unit stands for.
UnitExponent(unit) ==
    CASE unit = <<"k", "B">> -> 1
      [] unit = <<"M", "B">> -> 2
      [] unit = <<"G", "B">> -> 3

\* l * 1024^k
RECURSIVE TimesPow1024(_, _)
TimesPow1024(l, k) ==
    IF k = 0 THEN l ELSE TimesPow1024(MulLimbs(l, 1024, 0), k - 1)

\* The bytes of a reading: the number before the unit, times the unit.
WorkMemBytes(text) ==
    LET unit == SubSeq(text, Len(text) - 1, Len(text))
        n    == AtoiSmall(SubSeq(text, 1, Len(text) - 2))
    IN  ItoaLimbs(TimesPow1024(<<n>>, UnitExponent(unit)))

OnceWorkMem ==
    /\ oncePc = "workMem"
    /\ onceExecuted' = onceExecuted \cup {WorkMemQuery}
    /\ \E r \in WorkMemReadings, err \in BOOLEAN :
          /\ onceIn' = [query |-> WorkMemQuery, err |-> err, reading |-> r]
          /\ IF err
             THEN /\ onceErrs' = onceErrs \cup {WorkMemQuery}
                  /\ oncePc' = AfterQueryError("send")
                  /\ UNCHANGED onceMetrics
             ELSE /\ onceMetrics' = Put(onceMetrics, workMemKey, WorkMemBytes(r.text))
                  /\ oncePc' = "send"
                  /\ UNCHANGED onceErrs
    /\ UNCHANGED <<onceKind, onceWlm, onceZones, onceRpcs, onceResult>>
    /\ UNCHANGED <<dbVars, engineVars, wlmVars, initVars, mutexVars>>
    /\ UNCHANGED <<daemonVars, ctxCancelled, configVars, serviceVars, fanVars, chanVars, logVars>>

\* What WriteInsightAndGetResponse may return: a response, a nil response
\* without an error, or an error.
WriteInsightResults == {"response", "nil", "err"}

\* SendDataInsight for a shipper that takes a nil response for a failure.
SendDataInsightNilIsError(w) ==
    IF w \in {"err", "nil"} THEN [res |-> "nil", err |-> TRUE]
    ELSE [res |-> w, err |-> FALSE]

\* SendDataInsight: an error is returned without a response; else the
\* response is returned as it is.
SendDataInsight(w) ==
    IF w = "err" THEN [res |-> "nil", err |-> TRUE]
    ELSE [res |-> w, err |-> FALSE]

\* The metrics are shipped, once; an error of the shipment is an error of
\* the tick.
OnceSend ==
    /\ oncePc = "send"
    /\ \E w \in WriteInsightResults :
          /\ onceWlm' = w
          /\ onceErrs' = onceErrs \cup
                (IF SendDataInsight(w).err THEN {"SendDataInsight"} ELSE {})
    /\ onceRpcs' = onceRpcs + 1
    /\ oncePc' = "return"
    /\ UNCHANGED <<onceKind, onceIn, onceExecuted, onceMetrics, onceZones, onceResult>>
    /\ UNCHANGED <<dbVars, engineVars, wlmVars, initVars, mutexVars>>
    /\ UNCHANGED <<daemonVars, ctxCancelled, configVars, serviceVars, fanVars, chanVars, logVars>>

\* CollectMetricsOnce returns the metrics, and an error when one was recorded.
OnceReturn ==
    /\ oncePc = "return"
    /\ onceResult' = [metrics |-> onceMetrics, err |-> onceErrs # {}]
    /\ oncePc' = "done"
    /\ UNCHANGED <<onceKind, onceIn, onceWlm, onceExecuted, onceErrs, onceMetrics,
                   onceZones, onceRpcs>>
    /\ UNCHANGED <<dbVars, engineVars, wlmVars, initVars, mutexVars>>
    /\ UNCHANGED <<daemonVars, ctxCancelled, configVars, serviceVars, fanVars, chanVars, logVars>>

(***************************************************************************)
(* oracle.Service, statement by statement: processesMutex, processes and   *)
(* isProcessPresent in Start (discovery enabled), in                       *)
(* checkServiceCommunication and in runDiscovery.                          *)
(***************************************************************************)
\* What the statement-level actions leave alone.
mxOthers == <<startPc, inboundPc, discPc, metricPc, metricTicks, daemonVars, configVars,
              fanVars, chanVars, logVars, dbVars, engineVars, wlmVars, initVars, onceVars>>

\* Start is called: it spawns the goroutine of checkServiceCommunication;
\* with enabled unset it enters "for !s.isProcessPresent", with enabled true
\* it starts the discovery routine, with enabled false it returns.
MxStartEntry ==
    /\ mxPc.start = "none"
    /\ \E en \in {"unset", "true", "false"} :
          mxPc' = CASE en = "unset" ->
                         [mxPc EXCEPT !.start = "poll", !.inbound = "select"]
                    [] en = "true" ->
                         [start |-> "blocked", inbound |-> "select", discovery |-> "lock"]
                    [] OTHER ->
                         [mxPc EXCEPT !.start = "returned", !.inbound = "select"]
    /\ mxTasks' = mxTasks + 1
    /\ UNCHANGED <<processesMutex, mxMsg, mxLocal, mxDiscovered, isProcessPresent, processes, ctxCancelled>>
    /\ UNCHANGED mxOthers

\* Start is called again on a service whose Start has returned because it is
\* disabled: "go (func() { for { s.checkServiceCommunication(ctx) } })()"
\* runs once more, and Start returns as before.  The goroutines of the calls
\* before have no way out of their loop.
MxStartRestart ==
    /\ mxPc.start = "returned"
    /\ mxTasks < MaxStarts
    /\ mxTasks' = mxTasks + 1
    /\ UNCHANGED <<processesMutex, mxPc, mxMsg, mxLocal, mxDiscovered, isProcessPresent, processes, ctxCancelled>>
    /\ UNCHANGED mxOthers

\* for !s.isProcessPresent { time.Sleep(5 * time.Second) }: the field is read
\* without the mutex; then the discovery routine is started.
MxStartPoll ==
    /\ mxPc.start = "poll"
    /\ \E seen \in IsProcessPresentRead :
          mxPc' = IF seen
                  THEN [mxPc EXCEPT !.start = "blocked", !.discovery = "lock"]
                  ELSE mxPc
    /\ UNCHANGED <<mxTasks, processesMutex, mxMsg, mxLocal, mxDiscovered, isProcessPresent, processes, ctxCancelled>>
    /\ UNCHANGED mxOthers

\* case msg := <-s.CommonCh with a discovery message.
MxInboundRecv ==
    /\ mxPc.inbound = "select"
    /\ ~ctxCancelled
    /\ \E procs \in ProcLists : mxMsg' = procs
    /\ mxPc' = [mxPc EXCEPT !.inbound = "lock"]
    /\ UNCHANGED <<mxTasks, processesMutex, mxLocal, mxDiscovered, isProcessPresent, processes, ctxCancelled>>
    /\ UNCHANGED mxOthers

\* s.processesMutex.Lock()
MxLock(task, next) ==
    /\ mxPc[task] = "lock"
    /\ processesMutex = "free"
    /\ processesMutex' = task
    /\ mxPc' = [mxPc EXCEPT ![task] = next]
    /\ UNCHANGED <<mxTasks, mxMsg, mxLocal, mxDiscovered, isProcessPresent, processes, ctxCancelled>>
    /\ UNCHANGED mxOthers

\* s.processesMutex.Unlock()
MxUnlock(task, from, next) ==
    /\ mxPc[task] = from
    /\ processesMutex' = "free"
    /\ mxPc' = [mxPc EXCEPT ![task] = next]
    /\ UNCHANGED <<mxTasks, mxMsg, mxLocal, mxDiscovered, isProcessPresent, processes, ctxCancelled>>
    /\ UNCHANGED mxOthers

MxInboundLock == MxLock("inbound", "write")

\* s.processes = msg.DiscoveryResult.Processes
MxInboundWrite ==
    /\ mxPc.inbound = "write"
    /\ processes' = Slice(mxMsg)
    /\ mxPc' = [mxPc EXCEPT !.inbound = "unlock"]
    /\ UNCHANGED <<mxTasks, processesMutex, mxMsg, mxLocal, mxDiscovered, isProcessPresent, ctxCancelled>>
    /\ UNCHANGED mxOthers

MxInboundUnlock == MxUnlock("inbound", "unlock", "scan")

\* The range over the processes of the message, after Unlock:
\* s.isProcessPresent = true on the first process that matches.
MxInboundScan ==
    /\ mxPc.inbound = "scan"
    /\ isProcessPresent' = (isProcessPresent \/ ScanProcesses(mxMsg, 1))
    /\ mxPc' = [mxPc EXCEPT !.inbound = "select"]
    /\ UNCHANGED <<mxTasks, processesMutex, mxMsg, mxLocal, mxDiscovered, processes, ctxCancelled>>
    /\ UNCHANGED mxOthers

MxDiscLock == MxLock("discovery", "read")

\* SnapshotRead for a loop that keeps the snapshot it has once it has one.
SnapshotReadCached(local, stored) == IF local # NilSlice THEN local ELSE stored

\* processes := s.processes and processes = s.processes: the variable takes
\* the field's value each time.
SnapshotRead(local, stored) == stored

\* processes := s.processes
MxDiscRead ==
    /\ mxPc.discovery = "read"
    /\ mxLocal' = SnapshotRead(mxLocal, processes)
    /\ mxPc' = [mxPc EXCEPT !.discovery =
                   IF mxLocal' = NilSlice THEN "unlockNil" ELSE "unlockSet"]
    /\ UNCHANGED <<mxTasks, processesMutex, mxMsg, mxDiscovered, isProcessPresent, processes, ctxCancelled>>
    /\ UNCHANGED mxOthers

\* Unlock; with a nil snapshot the loop sleeps and locks again unless the
\* context is cancelled, else Discover is called.
MxDiscUnlock ==
    \/ MxUnlock("discovery", "unlockNil", IF ctxCancelled THEN "returned" ELSE "lock")
    \/ MxUnlock("discovery", "unlockSet", "discover")

\* ds.Discover, then the ticker: the loop begins again.
MxDiscTick ==
    /\ mxPc.discovery = "discover"
    /\ mxDiscovered' = mxLocal
    /\ mxPc' = [mxPc EXCEPT !.discovery = IF ctxCancelled THEN "returned" ELSE "lock"]
    /\ UNCHANGED <<mxTasks, processesMutex, mxMsg, mxLocal, isProcessPresent, processes, ctxCancelled>>
    /\ UNCHANGED mxOthers

\* cancel()
MxCancel ==
    /\ ~ctxCancelled
    /\ ctxCancelled' = TRUE
    /\ UNCHANGED <<mutexVars, isProcessPresent, processes>>
    /\ UNCHANGED mxOthers

(***************************************************************************)
(* Specifications                                                          *)
(***************************************************************************)
\* The daemon.  CommonCh is nil and processes stays nil, so the steps of the
\* service that need a message (DiscDiscover, DiscSelect) are not steps of
\* the daemon.
Next ==
    \/ LoadConfig
    \/ StartServiceRoutine
    \/ Signal
    \/ SignalDefault
    \/ ShutdownObserved
    \/ DrainAndExit
    \/ StartEntry
    \/ StartPoll
    \/ StartActivate
    \/ StartDone
    \/ InboundCheck
    \/ InboundSelect
    \/ DiscTop
    \/ DiscWait
    \/ MetricInit
    \/ MetricSelect

Spec == Init /\ [][Next]_vars

\* The steps of each goroutine.
CommonDiscovery == FanList \/ FanCheck \/ FanSend \/ FanWait
Start == StartEntry \/ StartPoll \/ StartActivate \/ StartDone
Inbound == InboundCheck \/ InboundSelect
runDiscovery == DiscTop \/ DiscWait \/ DiscDiscover \/ DiscSelect
runMetricCollection == MetricInit \/ MetricSelect

\* CommonDiscovery and the readers of its channels.
FanNext ==
    \/ CommonDiscovery
    \/ Consume
    \/ CancelCtx

FanSpec == FanInit /\ [][FanNext]_vars

\* CommonDiscovery and the Oracle service on its channel.
SvcNext ==
    \/ CommonDiscovery
    \/ CancelCtx
    \/ Start
    \/ Inbound
    \/ runDiscovery
    \/ runMetricCollection

SvcSpec == SvcInit /\ [][SvcNext]_vars

\* The origins of a message other than Discovery: DWActivation, and a value
\* the switch of checkServiceCommunication has no case for.
OtherOrigins == {"DWActivation", "Unknown"}

\* Another holder of the service's channel sends a message that is not a
\* discovery message, whatever it carries; the send blocks while the channel
\* is full.
OtherSend ==
    /\ ProcessAlive
    /\ CommonCh # NilChan
    /\ Len(chans[CommonCh]) < chanCap[CommonCh]
    /\ \E o \in OtherOrigins, l \in ProcLists :
          chans' = [chans EXCEPT ![CommonCh] = Append(@, [origin |-> o, procs |-> l])]
    /\ UNCHANGED <<chanCap, CommonCh, workloadDelivered, handledOrigins>>
    /\ UNCHANGED <<daemonVars, ctxCancelled, configVars, collectVars, logVars, fanVars, serviceVars>>

\* A service with enabled unset and neither routine configured, on a channel
\* that CommonDiscovery and another sender write to.
OriginInit ==
    /\ SvcInit
    /\ enabled = "unset"
    /\ goos = "linux"
    /\ discoveryEnabled = FALSE
    /\ metricsEnabled = FALSE

OriginNext ==
    \/ CommonDiscovery
    \/ CancelCtx
    \/ Start
    \/ Inbound
    \/ OtherSend

OriginSpec == OriginInit /\ [][OriginNext]_vars

\* SvcSpec with a recoverable routine that may call Start again.
RestartNext ==
    \/ SvcNext
    \/ StartRestart

RestartSpec == SvcInit /\ [][RestartNext]_vars

\* The goroutines are scheduled fairly and the tickers fire; a select that is
\* reached again and again with ctx.Done() ready takes that case in the end
\* (a ticker is not ready all the time, and select chooses at random among
\* the ready cases).  The owner of the context is under no obligation to
\* cancel it.
Fairness ==
    /\ WF_vars(CommonDiscovery)
    /\ WF_vars(Start)
    /\ WF_vars(Inbound)
    /\ WF_vars(runDiscovery)
    /\ WF_vars(runMetricCollection)
    /\ SF_vars(FanWait /\ fanPc' = "cancelled")
    /\ SF_vars(DiscSelect /\ discPc' = "returned")
    /\ SF_vars(MetricSelect /\ metricPc' = "returned")

\* With enabled unset Start leaves its wait only after a snapshot was stored,
\* so runDiscovery never finds processes nil: DiscWait is no step here.
AutoNext ==
    \/ CommonDiscovery
    \/ CancelCtx
    \/ Start
    \/ Inbound
    \/ DiscTop
    \/ DiscDiscover
    \/ DiscSelect
    \/ runMetricCollection

AutoFairSpec == AutoInit /\ [][AutoNext]_vars /\ Fairness

\* The metric loop of an Active service waits for its ticker; the database
\* has just started.
EngineInit ==
    /\ daemonPc = "waitSignal"
    /\ loadErr = FALSE
    /\ routinesStarted = {}
    /\ shutdownch = <<>>
    /\ executeResult = "none"
    /\ lastSignal = "none"
    /\ ctxCancelled = FALSE
    /\ enabled = "true"
    /\ discoveryEnabled = FALSE
    /\ metricsEnabled = TRUE
    /\ goos = "linux"
    /\ startPc = "blocked"
    /\ inboundPc = "check"
    /\ isProcessPresent = FALSE
    /\ processes = NilSlice
    /\ discPc = "none"
    /\ metricPc = "select"
    /\ metricTicks = 0
    /\ fanPc = "list"
    /\ fanIdx = 1
    /\ fullChs = 0
    /\ listed = NoListing
    /\ chans = [i \in {1} |-> <<>>]
    /\ chanCap = [i \in {1} |-> 1]
    /\ CommonCh = 1
    /\ workloadDelivered = FALSE
    /\ handledOrigins = {}
    /\ errorLog = {}
    /\ CollectInit

\* The ticks of the query engine against a database at work.
EngineNext ==
    \/ EngineTick
    \/ EngineQuery
    \/ DbIo
    \/ DbClock

EngineSpec == EngineInit /\ [][EngineNext]_vars

\* CollectAndSendMetricsToDataWarehouse is called in the running daemon.
CollectAndSendMetricsToDataWarehouse ==
    \/ WlmStart
    \/ WlmCollect
    \/ WlmSpawn
    \/ WlmWait
    \/ WlmSelect

\* The file is created, edited or removed by an operator.
OverrideFileChange ==
    /\ ProcessAlive
    /\ \E f \in OverrideFileStates \ {overrideFile} : overrideFile' = f
    /\ UNCHANGED <<wlmPc, wlmTick, wm, spawnIdx, shippers, results, wgCount, insights,
                   failedTicks, deliveredTicks>>
    /\ UNCHANGED <<dbVars, engineVars, initVars, onceVars, mutexVars>>
    /\ UNCHANGED <<daemonVars, ctxCancelled, configVars, serviceVars, fanVars, chanVars, logVars>>

WlmNext ==
    \/ CollectAndSendMetricsToDataWarehouse
    \/ Shipper
    \/ CancelCtx
    \/ OverrideFileChange

\* The daemon is running and the override loop has not been called.
WlmInit == FanInit

WlmSpec == WlmInit /\ [][WlmNext]_vars

\* One call of InitDB, for every configuration and every behaviour of the
\* secret store and of the driver.
InitDB ==
    \/ InitDBCall
    \/ InitPassword
    \/ InitOpen
    \/ InitPing

InitDBSpec == WlmInit /\ [][InitDB]_vars

\* One call of CollectMetricsOnce, for every answer of the database, of the
\* resolver and of the data warehouse.
CollectMetricsOnce ==
    \/ OnceCall
    \/ OnceBufferPool
    \/ OnceTotalRAM
    \/ OnceInnoDB
    \/ OnceRole
    \/ OnceZones
    \/ OnceWorkMem
    \/ OnceSend
    \/ OnceReturn

OnceSpec == WlmInit /\ [][CollectMetricsOnce]_vars

\* The goroutines of one Oracle service, statement by statement.
MutexNext ==
    \/ MxStartEntry
    \/ MxStartRestart
    \/ MxStartPoll
    \/ MxInboundRecv
    \/ MxInboundLock
    \/ MxInboundWrite
    \/ MxInboundUnlock
    \/ MxInboundScan
    \/ MxDiscLock
    \/ MxDiscRead
    \/ MxDiscUnlock
    \/ MxDiscTick
    \/ MxCancel

MutexSpec == WlmInit /\ [][MutexNext]_vars


(***************************************************************************)
(* Properties                                                              *)
(***************************************************************************)
\* The tasks of the service that are loops of their own.
NoLoopStarted == discPc = "none" /\ metricPc = "none" /\ metricTicks = 0

\* C1: a service whose configuration has enabled=false never starts its
\* discovery loop or its metric-collection loop and never sends a metric,
\* whatever messages arrive and whether or not the context is cancelled.
DisabledServiceEmitsNothing ==
    enabled = "false" => (NoLoopStarted /\ startPc \in {"begin", "returned"})

\* A disabled service has returned from Start while its goroutine has seen an
\* Oracle process.
DisabledServiceWitness ==
    /\ enabled = "false"
    /\ startPc = "returned"
    /\ isProcessPresent
    /\ ~ctxCancelled

\* C2: with enabled unset, as long as no message holding a process whose name
\* is read successfully and starts with one of the prefixes was put on the
\* channel of the service, Start is still waiting for the workload and no loop
\* has started and no metric was sent.
UnsetWithoutWorkloadWaits ==
    (enabled = "unset" /\ ~workloadDelivered)
        => (NoLoopStarted /\ startPc \in {"begin", "waiting"} /\ ~isProcessPresent)

\* The service waits after it consumed a list whose only Oracle process could
\* not be named.
UnsetWithoutWorkloadWitness ==
    /\ enabled = "unset"
    /\ ~workloadDelivered
    /\ startPc = "waiting"
    /\ processes = Slice(<<ProcOraGone, ProcMysqld>>)

\* Start is Active: the routines are started and it blocks on ctx.Done().
ServiceActive == startPc = "blocked"

AllTasksReturned ==
    /\ fanPc \in {"failed", "cancelled"}
    /\ startPc = "returned"
    /\ inboundPc = "returned"
    /\ discPc \in {"none", "failed", "returned"}
    /\ metricPc \in {"none", "failed", "returned"}

\* C4: once the root context is cancelled every long-running task (the
\* fan-out, Start, the inbound-message task, the discovery loop and the metric
\* loop) observes it and terminates.
CancellationTerminatesTasks == ctxCancelled ~> AllTasksReturned


\* C5: when the supervisor has started the services there is one fan-out
\* and the service owns an inbound channel of capacity at least 1.
OneFanOutOneChannelPerService ==
    daemonPc = "waitSignal"
        => /\ fanPc # "notStarted"
           /\ CommonCh \in DOMAIN chans
           /\ chanCap[CommonCh] >= 1

\* No channel holds more messages than its capacity.
ChannelsWithinCapacity == \A i \in DOMAIN chans : Len(chans[i]) <= chanCap[i]

\* The step of the round on channel fanIdx: a channel with room gets the
\* message of the round, a full one is left as it is and counted, no other
\* channel changes, and after the last channel the round is over.
SendStepSkipsFull ==
    (fanPc = "send" /\ fanIdx' # fanIdx)
        => /\ IF Len(chans[fanIdx]) < chanCap[fanIdx]
              THEN /\ chans'[fanIdx] = Append(chans[fanIdx], DiscoveryMessage(listed.procs))
                   /\ fullChs' = fullChs
              ELSE /\ chans'[fanIdx] = chans[fanIdx]
                   /\ fullChs' = fullChs + 1
           /\ \A j \in DOMAIN chans : j # fanIdx => chans'[j] = chans[j]
           /\ fanIdx' = fanIdx + 1
           /\ fanPc' = IF fanIdx = Len(chans) THEN "wait" ELSE "send"

\* C6: the send of a round on each channel does not block: a full channel is
\* skipped and counted, a channel with room receives the snapshot, the step is
\* possible whatever the readers do, and no channel exceeds its capacity.
FanOutSendsNeverBlock ==
    /\ [](ChannelsWithinCapacity /\ (fanPc = "send" => ENABLED FanSend))
    /\ [][SendStepSkipsFull]_vars

\* A round is over in which the first channel was full and skipped while the
\* second received the snapshot of the round.
FanOutSkipWitness ==
    /\ fanPc = "wait"
    /\ fullChs = 1
    /\ Len(chans[1]) = chanCap[1]
    /\ chans[2] # <<>>
    /\ chans[1][1] # chans[2][Len(chans[2])]

\* What listAllProcesses returned is an error or holds no process.
ListingFailed == listed.err \/ Len(listed.procs) < 1

\* C7: when the listing fails or holds no process the fan-out logs an error
\* and returns: nothing is sent in that round, and after it no channel
\* receives a message and no listing is made.
ListingFailureEndsFanOut ==
    /\ [][(fanPc = "listed" /\ ListingFailed /\ fanPc' # fanPc)
             => (fanPc' = "failed" /\ chans' = chans)]_vars
    /\ [][fanPc = "failed"
             => /\ fanPc' = "failed"
                /\ listed' = listed
                /\ \A i \in DOMAIN chans : Len(chans'[i]) <= Len(chans[i])]_vars

\* The fan-out has ended on a listing without processes, after a round that
\* delivered messages.
ListingFailureWitness ==
    /\ fanPc = "failed"
    /\ ~listed.err
    /\ listed.procs = <<>>
    /\ \E i \in DOMAIN chans : chans[i] # <<>>
    /\ ~ctxCancelled

\* C9: the supervisor leaves waitForShutdown's receive only with a signal,
\* the context is cancelled in that step and by nothing else, the drain and
\* the exit come after the cancellation, and the exit waits for no routine.
GracefulShutdownOrder ==
    /\ []((daemonPc = "drain" \/ (daemonPc = "exited" /\ ~loadErr)) => ctxCancelled)
    /\ [](daemonPc = "drain" => ENABLED DrainAndExit)
    /\ [][(~ctxCancelled /\ ctxCancelled')
             => (daemonPc = "waitSignal" /\ shutdownch # <<>> /\ daemonPc' = "drain")]_vars
    /\ [][(daemonPc = "waitSignal" /\ daemonPc' \notin {daemonPc, "killed"})
             => (shutdownch # <<>> /\ ctxCancelled' /\ daemonPc' = "drain")]_vars
    /\ [][(daemonPc # "exited" /\ daemonPc' = "exited" /\ ~loadErr')
             => (daemonPc = "drain" /\ ctxCancelled)]_vars

\* The supervisor has exited after a signal while Start of the service has
\* not returned.
GracefulShutdownWitness ==
    /\ daemonPc = "exited"
    /\ ctxCancelled
    /\ startPc \in {"waiting", "blocked"}
    /\ executeResult = "nil"

\* C10: the command exits with 0 after a graceful shutdown and with a
\* non-zero code when loading the configuration failed, and then no service
\* was started.
ExitCodeReportsLoadFailure ==
    daemonPc = "exited"
        => IF loadErr
           THEN /\ ExitCode(executeResult) # 0
                /\ routinesStarted = {}
                /\ startPc = "idle"
           ELSE ExitCode(executeResult) = 0

\* C11: each of the signals interrupt, terminate and hangup, delivered to the
\* running daemon, triggers the graceful shutdown: the process is not ended
\* by the signal, and the signal is pending on shutdownch or the root context
\* is cancelled (after which the drain and the exit follow, see C9).
SignalsTriggerGracefulShutdown ==
    lastSignal \in ShutdownSignals
        => /\ daemonPc # "killed"
           /\ (shutdownch # <<>> \/ ctxCancelled)

\* C12: on a host that is not Linux the Oracle service never becomes Active,
\* whatever its enabled setting and whatever processes it has seen: neither
\* the discovery loop nor the metric loop is started, no tick fires, and when
\* Start returns at the gate the refusal is in the error log.
PlatformGateRefuses ==
    goos # "linux"
        => /\ ~ServiceActive
           /\ NoLoopStarted
           /\ (startPc = "returned" /\ enabled # "false")
                 => UnsupportedPlatformMsg \in errorLog

\* On Windows a service with enabled unset has seen an Oracle process, left
\* its wait and was refused at the gate.
PlatformGateWitness ==
    /\ goos = "windows"
    /\ enabled = "unset"
    /\ isProcessPresent
    /\ startPc = "returned"
    /\ UnsupportedPlatformMsg \in errorLog
    /\ ~ctxCancelled

\* A tick of the query engine is complete.
TickComplete == enginePc = "idle" /\ executed # {}

\* The queries of the table declared for either role.
BothQueries ==
    { QueryTable[n].name : n \in { i \in DOMAIN QueryTable :
                                      QueryTable[i].database_role = "BOTH" } }

\* C13: in every tick data_files_queries (PRIMARY) is run iff the role of the
\* instance is primary, data_guard_queries (STANDBY) is run iff the role is
\* standby, the seven other queries (BOTH) are always run, and no key of a
\* query whose role does not match is in the output of the tick.
RoleAwareGating ==
    /\ "data_files_queries" \in executed => dbRole = "PRIMARY"
    /\ "data_guard_queries" \in executed => dbRole = "STANDBY"
    /\ tickOutput \cap OutputNames(data_files_queries) # {} => dbRole = "PRIMARY"
    /\ tickOutput \cap OutputNames(data_guard_queries) # {} => dbRole = "STANDBY"
    /\ TickComplete
          => /\ dbRole = "PRIMARY" => "data_files_queries" \in executed
             /\ dbRole = "STANDBY" => "data_guard_queries" \in executed
             /\ Cardinality(BothQueries) = 7
             /\ BothQueries \subseteq executed

\* A tick on a primary is complete: data_files_queries has sent its keys and
\* data_guard_queries was not run.
RoleAwareGatingWitness ==
    /\ TickComplete
    /\ dbRole = "PRIMARY"
    /\ "data_files/bytes_used" \in tickOutput
    /\ "data_guard_queries" \notin executed
    /\ "dataguard/apply_lag" \notin tickOutput

\* C14: the value sent for a key of a column declared METRIC_CUMULATIVE never
\* decreases from one tick to the next within the lifetime of the instance
\* (the engine sends the value of the row as it is).
CumulativeValuesMonotone ==
    [][\A k \in CumulativeKeys \cap DOMAIN emitted : emitted'[k] >= emitted[k]]_vars

\* C15: a shipment that fails does not end the loop: the failure is logged,
\* sendMetricsToDataWarehouse returns to the loop's select whatever the
\* shipments returned, the next tick of the ticker collects again, and the
\* loop returns only when the context is cancelled.
ShippingFailureNonFatal ==
    /\ [](wlmPc = "returned" => ctxCancelled)
    /\ [](failedTicks # {} => SendFailedMsg \in errorLog)
    /\ [][(wlmPc = "wait" /\ wlmPc' # wlmPc) => wlmPc' = "select"]_vars
    /\ [][(wlmPc = "select" /\ wlmPc' # wlmPc /\ ~ctxCancelled) => wlmPc' = "collect"]_vars

\* The first tick's shipment failed and the second tick's was delivered.
ShippingFailureWitness ==
    /\ 1 \in failedTicks
    /\ 1 \notin deliveredTicks
    /\ 2 \in deliveredTicks
    /\ SendFailedMsg \in errorLog
    /\ ~ctxCancelled

\* C16: every batch of a tick has a shipper goroutine of its own, and the
\* caller is past wg.Wait() only when all of them are done: no goroutine of a
\* tick is running when the loop waits for the ticker or collects again.
ShipmentsJoinBeforeNextTick ==
    /\ wgCount = Cardinality(shippers)
    /\ wlmPc \in {"idle", "noOverride", "collect", "select", "returned"}
          => shippers = {}
    /\ wlmPc = "wait" => shippers \cup DOMAIN results = DOMAIN wm
    /\ wlmPc = "select" => DOMAIN results = DOMAIN wm
    /\ shippers \cap DOMAIN results = {}

\* In the second tick the goroutines of two batches run at the same time.
ShipmentsJoinWitness ==
    /\ wlmTick = 2
    /\ wlmPc = "wait"
    /\ Cardinality(shippers) = 2
    /\ deliveredTicks = {1}

\* C17: the insight of a batch of workload type POSTGRES has workload_type
\* POSTGRES and the metrics of the batch as its validation details
\* ({"work_mem": "83886080"}).
PostgresInsightPayload ==
    \A x \in insights :
        x.wm.WorkloadType = "POSTGRES"
            => /\ x.req.Insight.TorsoValidation.WorkloadType = "POSTGRES"
               /\ x.req.Insight.TorsoValidation.ValidationDetails = x.wm.Metrics

\* C18: with a secret reference that lacks project_id or secret_name the
\* secret store is not asked, InitDB does not fail on the password even when
\* a fetch would fail, and the password is the one of the configuration,
\* which may be empty.
IncompleteSecretIsAbsent ==
    (initPc \in {"open", "ping", "done"}
     /\ (dbConfig.Secret.ProjectId = "" \/ dbConfig.Secret.SecretName = ""))
        => /\ ~secretFetched
           /\ initResult # "passwordErr"
           /\ dbPassword = dbConfig.Password

\* InitDB succeeded with an empty password on a reference without a secret
\* name, with a secret store whose fetch fails.
IncompleteSecretWitness ==
    /\ initPc = "done"
    /\ initResult = "ok"
    /\ dbConfig.Secret = [ProjectId |-> "fake-project-id", SecretName |-> ""]
    /\ dbConfig.Password = ""
    /\ gceSecret.err
    /\ dbPassword = ""

\* C19: InitDB returns an error iff the secret of a reference with project_id
\* and secret_name cannot be fetched, or the connection cannot be opened, or
\* the liveness probe fails.
InitDBErrorIff ==
    initPc = "done"
        => (initResult # "ok"
              <=> \/ (dbConfig.Secret.ProjectId # "" /\ dbConfig.Secret.SecretName # ""
                      /\ gceSecret.err)
                  \/ connectErr
                  \/ pingErr)

\* InitDB failed on the liveness probe alone.
InitDBErrorWitness ==
    /\ initPc = "done"
    /\ initResult = "pingErr"
    /\ secretFetched
    /\ ~gceSecret.err
    /\ ~connectErr

\* C20: when the metric collector cannot be initialised the metric loop
\* stays alive (the initialisation is tried again on the next tick).
CollectorInitFailureKeepsLoop ==
    (CollectorInitFailedMsg \in errorLog /\ ProcessAlive)
        => metricPc \in {"init", "select"}

NilResponseIsSuccess ==
    (oncePc = "done" /\ onceWlm = "nil" /\ onceErrs \cap MetricQueries(onceKind) = {})
        => /\ ~onceResult.err
           /\ {QueryKey(q) : q \in MetricQueries(onceKind)} \subseteq DOMAIN onceResult.metrics
           /\ onceRpcs = 1

\* A Postgres tick returned its work_mem without an error after a nil
\* response.
NilResponseWitness ==
    /\ oncePc = "done"
    /\ onceKind = "POSTGRES"
    /\ onceWlm = "nil"
    /\ ~onceResult.err
    /\ workMemKey \in DOMAIN onceResult.metrics
    /\ onceRpcs = 1

\* The limbs of a decimal number.
RECURSIVE AtoiLimbs(_)
AtoiLimbs(cs) ==
    IF cs = <<>> THEN <<0>>
    ELSE MulLimbs(AtoiLimbs(SubSeq(cs, 1, Len(cs) - 1)), 10, CharDigit(cs[Len(cs)]))

\* Limbs without zero limbs at the top.
RECURSIVE TrimLimbs(_)
TrimLimbs(l) ==
    IF Len(l) > 1 /\ l[Len(l)] = 0 THEN TrimLimbs(SubSeq(l, 1, Len(l) - 1)) ELSE l

\* The quotient and the remainder of the limbs l[1..i] and the remainder rem
\* of the limbs above them, divided by 1024.
RECURSIVE DivLimbs1024(_, _, _)
DivLimbs1024(l, i, rem) ==
    IF i = 0 THEN [q |-> <<>>, r |-> rem]
    ELSE LET cur  == rem * LimbBase + l[i]
             rest == DivLimbs1024(l, i - 1, cur % 1024)
         IN  [q |-> Append(rest.q, cur \div 1024), r |-> rest.r]

\* l is n * 1024^k.
RECURSIVE IsTimesPow1024(_, _, _)
IsTimesPow1024(l, n, k) ==
    IF k = 0 THEN l = <<n>>
    ELSE LET d == DivLimbs1024(l, Len(l), 0) IN
         d.r = 0 /\ IsTimesPow1024(TrimLimbs(d.q), n, k - 1)

\* C26: the work_mem that is collected from a reading of n and kB, MB or GB
\* is the decimal number n*1024, n*1024^2 or n*1024^3; 80MB gives 83886080,
\* 64kB gives 65536 and 4GB gives 4294967296.
WorkMemNormalised ==
    (onceKind = "POSTGRES" /\ oncePc = "send" /\ ~onceIn.err)
        => LET r == onceIn.reading
               v == onceMetrics[workMemKey]
               k == CASE r.unit = <<"k", "B">> -> 1
                      [] r.unit = <<"M", "B">> -> 2
                      [] r.unit = <<"G", "B">> -> 3
           IN  /\ IsTimesPow1024(AtoiLimbs(v), r.n, k)
               /\ r.text = <<"8", "0", "M", "B">>
                     => v = <<"8", "3", "8", "8", "6", "0", "8", "0">>
               /\ r.text = <<"6", "4", "k", "B">>
                     => v = <<"6", "5", "5", "3", "6">>
               /\ r.text = <<"4", "G", "B">>
                     => v = <<"4", "2", "9", "4", "9", "6", "7", "2", "9", "6">>

\* A reading of 4GB was collected as 4294967296.
WorkMemWitness ==
    /\ onceKind = "POSTGRES"
    /\ oncePc = "send"
    /\ ~onceIn.err
    /\ onceIn.reading.text = <<"4", "G", "B">>
    /\ onceMetrics[workMemKey] = <<"4", "2", "9", "4", "9", "6", "7", "2", "9", "6">>

\* The zones TestReplicationZones expects for the addresses that resolve.
ExpectedZone ==
    [a \in {Ip1, Ip2, Fqdn1} |-> IF a = Ip2 THEN "test-zone2" ELSE "test-zone"]

\* C27: a source has each zone of its replica addresses that resolve (the
\* second component of the name) once, in one comma-joined value; addresses
\* that do not resolve are left out and record no error; a replica has no
\* zone.
ReplicationZonesContract ==
    (onceKind = "MYSQL" /\ oncePc = "send")
        => LET role == onceMetrics[currentRoleKey]
               rows == onceIn.rows
           IN  /\ role = replicaRole => onceZones = <<>>
               /\ (role = sourceRole /\ ~onceIn.err)
                     => /\ {onceZones[i] : i \in DOMAIN onceZones} =
                              {ExpectedZone[rows[i]] :
                                  i \in {j \in DOMAIN rows : rows[j] \in DOMAIN ExpectedZone}}
                        /\ \A i, j \in DOMAIN onceZones :
                              onceZones[i] = onceZones[j] => i = j
               /\ onceZones = <<>> => onceMetrics[replicationZonesKey] = ""
               /\ onceZones = <<"test-zone">>
                     => onceMetrics[replicationZonesKey] = "test-zone"
               /\ onceZones = <<"test-zone", "test-zone2">>
                     => onceMetrics[replicationZonesKey] = "test-zone,test-zone2"
               /\ onceZones = <<"test-zone2", "test-zone">>
                     => onceMetrics[replicationZonesKey] = "test-zone2,test-zone"
               /\ onceErrs \subseteq MetricQueries(onceKind)

\* A source with an address that resolves by reverse lookup, one that does
\* not resolve and a name of the same zone: one zone.
ReplicationZonesWitness ==
    /\ onceKind = "MYSQL"
    /\ oncePc = "send"
    /\ onceMetrics[currentRoleKey] = sourceRole
    /\ onceIn = [rows |-> <<Ip1, InvalidIp, Fqdn1>>, err |-> FALSE]
    /\ onceMetrics[replicationZonesKey] = "test-zone"
    /\ onceErrs = {}

\* C28: the role is replica iff SHOW REPLICA STATUS or else SHOW SLAVE STATUS
\* returned a row; it is source when both returned no row or an error.
RoleDetection ==
    (onceKind = "MYSQL" /\ oncePc = "replicationZones")
        => /\ onceMetrics[currentRoleKey] = replicaRole
                 <=> (onceIn.replica = "rows" \/ onceIn.slave = "rows")
           /\ onceMetrics[currentRoleKey] # replicaRole
                 => onceMetrics[currentRoleKey] = sourceRole

\* SHOW REPLICA STATUS had no row and SHOW SLAVE STATUS had one: a replica.
RoleDetectionWitness ==
    /\ onceKind = "MYSQL"
    /\ oncePc = "replicationZones"
    /\ onceIn = [replica |-> "none", slave |-> "rows"]
    /\ onceMetrics[currentRoleKey] = replicaRole
    /\ SlaveStatusQuery \in onceExecuted

\* C24: isProcessPresent is false until a discovery message with a process
\* of the workload was sent to the service, the handling of such a message
\* sets it, and once it is set every step leaves it set, whatever the later
\* messages hold.
ProcessPresentLatches ==
    [][/\ isProcessPresent => isProcessPresent'
       /\ isProcessPresent' => workloadDelivered'
       /\ (inboundPc = "select" /\ inboundPc' = "check" /\ chans' # chans
           /\ \E i \in DOMAIN Head(chans[CommonCh]).procs :
                 LET p == Head(chans[CommonCh]).procs[i] IN
                 ~p.nameErr /\ HasAnyPrefix(p.name, oraProcessPrefixes))
             => isProcessPresent']_vars

\* The latch is set and the last snapshot holds no process of the workload.
ProcessPresentLatchWitness ==
    /\ isProcessPresent
    /\ processes = Slice(<<ProcMysqld>>)

\* C25: a service whose enabled field is false is never Active and none of
\* its routines is ever started, whatever processes are observed and however
\* often Start is called again; a service that is Active stops being so only
\* when the context is cancelled.
EnabledDecisionLatches ==
    [][/\ enabled = "false"
             => (~ServiceActive' /\ discPc' = "none" /\ metricPc' = "none")
       /\ (ServiceActive /\ ~ServiceActive') => ctxCancelled]_vars

\* Start of a disabled service is called again after the workload was
\* observed.
EnabledDecisionWitness ==
    /\ enabled = "false"
    /\ isProcessPresent
    /\ startPc = "begin"
    /\ inboundPc # "none"
    /\ metricPc = "none"

\* C23: processes and isProcessPresent are written only by the goroutine
\* that holds processesMutex, and a goroutine about to read isProcessPresent
\* is never there together with one about to write it.
MutexGuardsSnapshotAndLatch ==
    [][/\ processes' # processes => processesMutex = "inbound"
       /\ isProcessPresent' # isProcessPresent => processesMutex = "inbound"
       /\ ~(mxPc.start = "poll" /\ mxPc.inbound = "scan")]_vars


\* The files of the model in which every header names a workload type.
TypedOverrideFiles == {FileEmpty, FilePostgres, FileOracleMysql, FileMetricFirst}

\* The batches the override file holds, written out for each of these
\* files: none when there is no file, one batch without a type for a file
\* without lines, one batch per workload_type header else.
ExpectedBatches(file) ==
    IF ~file.exists THEN <<>>
    ELSE IF file.lines = FileEmpty THEN << WorkloadMetrics("", <<>>) >>
    ELSE IF file.lines = FilePostgres THEN << PostgresBatch >>
    ELSE IF file.lines = FileOracleMysql THEN << OracleBatch, MysqlBatch >>
    ELSE << OracleBatch >>

\* C29: on every tick of the override loop the file is read again and the
\* batches of the tick are those of the file as it is at that tick (stated
\* for the files whose headers all name a workload type); when
\* sendMetricsToDataWarehouse returns, every batch of the tick has been
\* emitted as an insight of that tick; and no step of the service changes
\* the file.
OverrideFileReadEveryTick ==
    [][/\ (wlmTick' # wlmTick /\ overrideFile.lines \in TypedOverrideFiles)
             => wm' = ExpectedBatches(overrideFile)
       /\ (wlmPc = "wait" /\ wlmPc' # "wait") =>
             \A i \in 1..Len(wm) :
                \E ins \in insights : ins.tick = wlmTick /\ ins.wm = wm[i]
       /\ overrideFile' # overrideFile =>
             /\ wlmPc' = wlmPc /\ wlmTick' = wlmTick /\ wm' = wm
             /\ insights' = insights /\ shippers' = shippers]_vars

\* The file was edited between two ticks: the first tick shipped the POSTGRES
\* batch, the second the ORACLE and MYSQL batches.
OverrideFileWitness ==
    /\ wlmTick = 2
    /\ wlmPc = "select"
    /\ \E ins \in insights : ins.tick = 1 /\ ins.wm = PostgresBatch
    /\ \E ins \in insights : ins.tick = 2 /\ ins.wm = OracleBatch
    /\ \E ins \in insights : ins.tick = 2 /\ ins.wm = MysqlBatch


\* C31: a message whose origin is not Discovery is taken from the channel
\* and leaves the processes snapshot and isProcessPresent as they are; and
\* isProcessPresent is set only by a discovery message that holds a process
\* of the workload whose name could be read.
OtherOriginsIgnored ==
    [][/\ (/\ chans[CommonCh] # <<>>
           /\ chans'[CommonCh] = Tail(chans[CommonCh])
           /\ Head(chans[CommonCh]).origin # "Discovery")
          => (processes' = processes /\ isProcessPresent' = isProcessPresent)
       /\ (~isProcessPresent /\ isProcessPresent')
          => /\ chans[CommonCh] # <<>>
             /\ Head(chans[CommonCh]).origin = "Discovery"
             /\ \E i \in DOMAIN Head(chans[CommonCh]).procs :
                   LET pr == Head(chans[CommonCh]).procs[i] IN
                      ~pr.nameErr /\ HasAnyPrefix(pr.name, oraProcessPrefixes)]_vars

\* The service has handled a message of each other origin and no discovery
\* message: it still has no snapshot, and Start still waits for the workload.
OtherOriginsWitness ==
    /\ handledOrigins = OtherOrigins
    /\ processes = NilSlice
    /\ ~isProcessPresent
    /\ startPc = "waiting"


\* C32: Discover is called only when a snapshot has been stored, and never
\* with a nil snapshot; what a run of the loop gives to Discover is the
\* snapshot that was the last one stored when the run read the field under
\* the mutex.
DiscoveryUsesStoredSnapshot ==
    [][/\ mxDiscovered' # mxDiscovered =>
             (processes # NilSlice /\ mxDiscovered' # NilSlice /\ mxDiscovered' = mxLocal)
       /\ mxPc'.discovery = "discover" =>
             (processes' # NilSlice /\ mxLocal' # NilSlice)
       /\ (processesMutex = "discovery" /\ processesMutex' = "free") =>
             mxLocal' = processes
       /\ (mxPc.discovery \in {"unlockSet", "discover"} /\ processesMutex # "discovery") =>
             mxLocal' = mxLocal]_vars

\* A second run of the loop is about to call Discover with a snapshot that
\* was stored after the first run and differs from the one that run used.
DiscoverySnapshotWitness ==
    /\ mxPc.discovery = "discover"
    /\ mxDiscovered # NilSlice
    /\ mxLocal # mxDiscovered
    /\ mxLocal = processes


\* C33: in an Active service the discovery loop has been started iff
\* discovery.enabled is true and the metric loop iff metrics.enabled is true,
\* each whatever the other flag is; before the service is Active neither
\* loop runs; and Start leaves its wait only when the context is cancelled.
LoopsFollowConfiguration ==
    /\ [](startPc = "blocked" =>
             /\ (discPc # "none") <=> discoveryEnabled
             /\ (metricPc # "none") <=> metricsEnabled)
    /\ [](startPc \in {"begin", "waiting", "gate"} =>
             (discPc = "none" /\ metricPc = "none"))
    /\ [][(startPc = "blocked" /\ startPc' # "blocked") => ctxCancelled]_vars

\* An Active service with metrics enabled and discovery disabled: the metric
\* loop waits for its ticker and no discovery loop runs.
LoopsFollowConfigurationWitness ==
    /\ startPc = "blocked"
    /\ metricsEnabled /\ ~discoveryEnabled
    /\ metricPc = "select"
    /\ discPc = "none"


\* C34: every message on a channel of the fan-out has the origin Discovery
\* and holds at least one process; a message put on a channel in a round
\* holds the process list of that round, which does not change while the
\* round goes over the channels.
FanOutMessagesWellFormed ==
    /\ [](\A i \in DOMAIN chans : \A j \in DOMAIN chans[i] :
             chans[i][j].origin = "Discovery" /\ Len(chans[i][j].procs) >= 1)
    /\ [][\A i \in DOMAIN chans :
             Len(chans'[i]) > Len(chans[i]) =>
                /\ fanPc = "send"
                /\ chans'[i][Len(chans'[i])].procs = listed.procs
                /\ Len(chans'[i]) = Len(chans[i]) + 1]_vars
    /\ [][(fanPc = "send" /\ fanPc' = "send") => listed' = listed]_vars

\* A round is over in which every channel received a message: all of them
\* hold the same snapshot.
FanOutSameSnapshotWitness ==
    /\ fanPc = "wait"
    /\ fullChs = 0
    /\ \A i \in DOMAIN chans :
          /\ chans[i] # <<>>
          /\ chans[i][Len(chans[i])] = chans[1][Len(chans[1])]


\* C35: CommonDiscovery begins with a listing, not with a wait; a round goes
\* from the listing through the sends to the select without listing again;
\* a later listing is reached only from the select, by the ticker; and in
\* the select the fan-out sends nothing and lists nothing, and leaves it
\* otherwise only when the context is cancelled.
FanOutRoundsByTicker ==
    /\ fanPc = "list"
    /\ [][/\ (fanPc' = "list" /\ fanPc # "list") => fanPc = "wait"
          /\ fanPc = "list" => fanPc' \in {"list", "listed"}
          /\ fanPc = "listed" => fanPc' \in {"listed", "send", "failed"}
          /\ fanPc = "send" => fanPc' \in {"send", "wait"}
          /\ fanPc = "wait" =>
                /\ fanPc' \in {"wait", "list", "cancelled"}
                /\ fanPc' = "cancelled" => ctxCancelled
                /\ listed' = listed
                /\ \A i \in DOMAIN chans : Len(chans'[i]) <= Len(chans[i])]_vars

\* The ticker has fired after a round that went over every channel, and the
\* listing of the next round is due.
FanOutSecondRoundWitness ==
    /\ fanPc = "list"
    /\ fanIdx = Len(chans) + 1
    /\ \E i \in DOMAIN chans : chans[i] # <<>>


\* Start of the service, or one of its loops, ends in this step.
ServiceRoutineEnds ==
    \/ startPc # "returned" /\ startPc' = "returned"
    \/ discPc \notin {"failed", "returned"} /\ discPc' \in {"failed", "returned"}
    \/ metricPc \notin {"failed", "returned"} /\ metricPc' \in {"failed", "returned"}

\* C36: a step in which Start of a service or one of its loops ends leaves
\* the supervisor where it is, the root context as it is and Execute
\* running; and as long as no signal has been delivered the supervisor that
\* has started its services has not exited and the context is not cancelled,
\* whatever has become of the services.
ServiceTerminationKeepsSupervisor ==
    /\ [][ServiceRoutineEnds =>
             /\ daemonPc' = daemonPc
             /\ ctxCancelled' = ctxCancelled
             /\ executeResult' = executeResult
             /\ shutdownch' = shutdownch]_vars
    /\ []((routinesStarted # {} /\ lastSignal = "none") =>
             /\ daemonPc \in {"startServices", "waitSignal"}
             /\ ~ctxCancelled
             /\ executeResult = "none")

\* Start of the service has returned and its metric loop has ended on a
\* failure, no signal has been delivered: the supervisor waits for one.
ServiceTerminationWitness ==
    /\ startPc = "returned"
    /\ metricPc \in {"none", "failed"}
    /\ discPc = "none"
    /\ lastSignal = "none"
    /\ daemonPc = "waitSignal"
    /\ ~ctxCancelled


\* The lines of a file by what the format makes of them: a line that is
\* empty, begins with # or holds no colon is skipped; the key of another
\* line is what precedes its first colon, its value what follows it, both
\* without the blanks around them.
LineSkipped(line) ==
    line = <<>> \/ line[1] = "#" \/ \A i \in DOMAIN line : line[i] # ":"
KeyOf(line) == Str(TrimSpace(Cut(line, ":").before))
ValueOf(line) == Str(TrimSpace(Cut(line, ":").after))
HeaderLines(lines) ==
    {i \in DOMAIN lines : ~LineSkipped(lines[i]) /\ KeyOf(lines[i]) = "workload_type"}
MetricLines(lines) ==
    {i \in DOMAIN lines : ~LineSkipped(lines[i]) /\ KeyOf(lines[i]) # "workload_type"}

\* The batch a metric line belongs to: that of the last header before it,
\* the first batch when no header precedes it.
BatchOfLine(lines, i) ==
    LET n == Cardinality({h \in HeaderLines(lines) : h < i}) IN
       IF n = 0 THEN 1 ELSE n

\* The batches of a readable file as the format describes them: one per
\* header and at least one, in the order of the file, each with the type of
\* its header and, for each key of its metric lines, the value of the last
\* of them.
BatchesOfFormat(lines) ==
    LET hs == HeaderLines(lines)
        count == IF hs = {} THEN 1 ELSE Cardinality(hs)
        header(n) == CHOOSE h \in hs : Cardinality({g \in hs : g <= h}) = n
        of(n) == {i \in MetricLines(lines) : BatchOfLine(lines, i) = n}
        last(n, k) == CHOOSE i \in of(n) :
                         /\ KeyOf(lines[i]) = k
                         /\ \A j \in of(n) : KeyOf(lines[j]) = k => j <= i
    IN [n \in 1..count |->
           WorkloadMetrics(IF hs = {} THEN "" ELSE ValueOf(lines[header(n)]),
                           [k \in {KeyOf(lines[i]) : i \in of(n)} |->
                               ValueOf(lines[last(n, k)])])]

\* C38: the batches collectOverrideMetrics makes of a readable file are
\* those of the format: skipped lines add nothing, a metric line goes to the
\* batch of the last header before it (to the first batch when none
\* precedes it), a key given twice keeps its last value, and there are
\* max(1, number of headers) batches in the order of the file.
OverrideParsingContract ==
    [][(wlmTick' # wlmTick /\ overrideFile.exists)
          => wm' = BatchesOfFormat(overrideFile.lines)]_vars

\* The same contract for the files in which every header names a workload
\* type: it holds of them.
TypedOverrideParsing ==
    [][(wlmTick' # wlmTick /\ overrideFile.exists
        /\ overrideFile.lines \in TypedOverrideFiles)
          => wm' = BatchesOfFormat(overrideFile.lines)]_vars


\* C39: once Start has been called, one goroutine and no more runs
\* checkServiceCommunication on the channel of the service, also when Start
\* has returned for a disabled service and when it was called again.
OneInboundTask == mxPc.start # "none" => mxTasks = 1

====
